---- MODULE Spec2Model ----
(***************************************************************************)
(* A model of the personal-assistant repository: the preference store,     *)
(* the agents' process_message operations with the Assistant's             *)
(* conversation memory, the Gmail and Calendar clients, the tool           *)
(* functions and the REST handlers.                                        *)
(*                                                                         *)
(* Python values are modelled as follows.  A dict with string keys is a    *)
(* function from a set of strings; a str is a string; an exception is the  *)
(* name of its class, and "none" stands for "no exception".                *)
(***************************************************************************)
EXTENDS Integers, Sequences, FiniteSets, TLC

VARIABLES
    files,                \* user_data/<user_id>_preferences.json, per user id
    clock,                \* datetime.datetime.now()
    last,                 \* the last call a caller made of the preference store
    conversation_memory,  \* AssistantAgent.conversation_memory
    calls,                \* the frame of the call each caller is in, per slot
    returned,             \* what the last process_message call of a caller returned
    gmail_service,        \* GmailService.service
    calendar_service,     \* CalendarService.service
    client,               \* the last call of a GmailService or CalendarService method
    tool,                 \* the last invocation of a tool function
    response,             \* the last response of a route handler
    app,                  \* the Gradio application of app.py: environment and main()
    google,               \* the GoogleAPIService of the interface and its token file
    ui,                   \* the last call a handler of the interface made
    oauth                 \* token.json and the last call of get_credentials

prefVars == <<files, clock, last>>
memVars == <<conversation_memory, calls, returned>>
clientVars == <<gmail_service, calendar_service, client>>
callVars == <<tool, response>>
vars == <<files, clock, last, conversation_memory, calls, returned,
          gmail_service, calendar_service, client, tool, response, app, google, ui, oauth>>

----------------------------------------------------------------------------
(* Bounds of the model. *)

\* process_message calls begin only while the memory holds fewer entries
MaxMemory == 22
\* the same, in the specification of the three agents with overlapping calls
MaxAgentMemory == 4
\* the clock stops here
MaxClock == 2
\* process_message calls that may overlap at the runner await
NumSlots == 2

UserIds == {"default", "alice"}
\* the user ids the callers of the preference store pass
StoreUsers == {"default"}
Messages == {"hi", "bye"}
Outputs == {"out1", "out2"}

----------------------------------------------------------------------------
(* Exceptions. *)

\* The runner's failures, all of them subclasses of Exception.
RunnerErrors == {"RuntimeError", "ValueError"}

\* isinstance(e, cls) for the exception classes of the model, every one a
\* direct or indirect subclass of Exception.
isinstance(e, cls) == cls = e \/ cls = "Exception"

\* try: raise e / except <handlers>: whether one of the except clauses takes e.
Catches(handlers, e) == \E i \in 1..Len(handlers) : isinstance(e, handlers[i])

----------------------------------------------------------------------------
(* utils/helpers.py: the preference store. *)

EmptyDict == [k \in {} |-> ""]

\* dict_update replacing the dict instead of merging into it
dict_update_replaces(a, b) == b

\* dict.update: the keys of b overwrite those of a.
dict_update(a, b) == [k \in DOMAIN a \cup DOMAIN b |-> IF k \in DOMAIN b THEN b[k] ELSE a[k]]

format_datetime(dt) == "t" \o ToString(dt)

AbsentFile == [kind |-> "absent", data |-> EmptyDict]
CorruptFile == [kind |-> "corrupt", data |-> EmptyDict]
\* json.dump of a dict with string keys and string values
JsonFile(data) == [kind |-> "json", data |-> data]

\* open(file_path, 'w') may fail (the file is left as it was), and json.dump
\* may fail after the file was truncated (what is left is not JSON).
SaveOutcomes == {"ok", "open_error", "write_error"}

save_json_file(fs, user_id, data, io) ==
    CASE io = "ok" -> [ret |-> TRUE, files |-> [fs EXCEPT ![user_id] = JsonFile(data)]]
      [] io = "open_error" -> [ret |-> FALSE, files |-> fs]
      [] io = "write_error" -> [ret |-> FALSE, files |-> [fs EXCEPT ![user_id] = CorruptFile]]

load_json_file(fs, user_id) ==
    IF fs[user_id].kind = "json" THEN fs[user_id].data ELSE EmptyDict

DefaultKeys == {"user_id", "created_at", "theme", "notifications_enabled",
                "email_signature", "preferred_greeting", "creativity_level"}

default_prefs(user_id, now) ==
    ("user_id" :> user_id) @@ ("created_at" :> format_datetime(now))
    @@ ("theme" :> "light") @@ ("notifications_enabled" :> "True")
    @@ ("email_signature" :> "") @@ ("preferred_greeting" :> "Hello")
    @@ ("creativity_level" :> "balanced")

\* load_user_preferences without the os.path.exists test
load_user_preferences_regenerates(fs, user_id, now, io) ==
    LET s == save_json_file(fs, user_id, default_prefs(user_id, now), io)
    IN [ret |-> default_prefs(user_id, now), files |-> s.files, wrote |-> TRUE]

\* ret: the dict returned; files: the files afterwards; wrote: whether the
\* call opened the file for writing.
load_user_preferences(fs, user_id, now, io) ==
    IF fs[user_id].kind = "absent"
    THEN LET s == save_json_file(fs, user_id, default_prefs(user_id, now), io)
         IN [ret |-> default_prefs(user_id, now), files |-> s.files, wrote |-> TRUE]
    ELSE [ret |-> load_json_file(fs, user_id), files |-> fs, wrote |-> FALSE]

update_user_preferences(fs, user_id, updates, now, io1, io2) ==
    LET l == load_user_preferences(fs, user_id, now, io1)
        prefs == dict_update(dict_update(l.ret, updates),
                             "updated_at" :> format_datetime(now))
        s == save_json_file(l.files, user_id, prefs, io2)
    IN [ret |-> s.ret, files |-> s.files]

\* The updates mappings of the model: a default key, a new key, both, and the
\* two keys the store itself writes.
UpdateSets == {"theme" :> "dark", "lang" :> "fr",
               ("theme" :> "blue") @@ ("lang" :> "de"),
               "updated_at" :> "never", "user_id" :> "mallory"}

\* A call of the store as last keeps it: the file before it, what it was given
\* and what it returned (prefs for a load, ok for an update).
PrefCall(op, user_id, updates, io, prefs, ok, wrote) ==
    [op |-> op, user_id |-> user_id, updates |-> updates, before |-> files[user_id],
     io |-> io, prefs |-> prefs, ok |-> ok, wrote |-> wrote]

\* A caller runs load_user_preferences(user_id).
LoadPreferences(user_id, io) ==
    LET l == load_user_preferences(files, user_id, clock, io)
    IN /\ files' = l.files
       /\ last' = PrefCall("load", user_id, EmptyDict, io, l.ret, TRUE, l.wrote)
       /\ UNCHANGED <<app, google, ui, oauth, clock, memVars, clientVars, callVars>>

\* A caller runs update_user_preferences(user_id, updates), start to end.
UpdatePreferences(user_id, updates, io1, io2) ==
    LET r == update_user_preferences(files, user_id, updates, clock, io1, io2)
    IN /\ files' = r.files
       /\ last' = PrefCall("update", user_id, updates, io2, EmptyDict, r.ret, TRUE)
       /\ UNCHANGED <<app, google, ui, oauth, clock, memVars, clientVars, callVars>>

\* Time passes.
Tick ==
    /\ clock < MaxClock
    /\ clock' = clock + 1
    /\ UNCHANGED <<app, google, ui, oauth, files, last, memVars, clientVars, callVars>>

\* Two callers of update_user_preferences at once. The function takes no lock
\* and its file accesses are separate system calls, so another caller's steps
\* may fall between its os.path.exists test, its read or default write, and
\* its final write. calls[p] is the frame of caller p.
Updaters == {1, 2}

UpdateFrame(pc, user_id, updates, exists, prefs, seen, ret) ==
    [pc |-> pc, message |-> "", user_id |-> user_id, updates |-> updates,
     exists |-> exists, prefs |-> prefs, seen |-> seen, ret |-> ret]

\* last, after a write of the store: the caller that wrote (0 for a default
\* record) and the callers whose final write the record written derives from
StoreWrite(by, contains) ==
    [op |-> "write", user_id |-> "", updates |-> EmptyDict, before |-> AbsentFile,
     io |-> "", prefs |-> EmptyDict, ok |-> TRUE, wrote |-> TRUE,
     by |-> by, contains |-> contains]

ContainsOf(l) == IF l.op = "write" THEN l.contains ELSE {}

\* load_user_preferences after its os.path.exists test gave exists: the
\* default record is saved and returned, or the file is read
update_user_preferences_load(fs, user_id, exists, now, io) ==
    IF ~exists
    THEN [ret |-> default_prefs(user_id, now),
          files |-> save_json_file(fs, user_id, default_prefs(user_id, now), io).files]
    ELSE [ret |-> load_json_file(fs, user_id), files |-> fs]

\* a write that merges the updates into the file as it is now
update_user_preferences_write_rereads(fs, user_id, prefs, updates, now, io) ==
    save_json_file(fs, user_id,
                   dict_update(dict_update(load_json_file(fs, user_id), updates),
                               "updated_at" :> format_datetime(now)), io)

\* prefs.update(updates); prefs["updated_at"] = ...; save_json_file(prefs, ...)
update_user_preferences_write(fs, user_id, prefs, updates, now, io) ==
    save_json_file(fs, user_id,
                   dict_update(dict_update(prefs, updates),
                               "updated_at" :> format_datetime(now)), io)

\* Caller p enters update_user_preferences and load_user_preferences tests
\* whether the file exists.
UpdateExists(p, user_id, updates) ==
    /\ calls[p].pc = "idle"
    /\ calls' = [calls EXCEPT ![p] =
                    UpdateFrame("tested", user_id, updates,
                                files[user_id].kind # "absent", EmptyDict, {}, FALSE)]
    /\ UNCHANGED <<app, google, ui, oauth, prefVars, conversation_memory, returned, clientVars, callVars>>

\* load_user_preferences of caller p writes the defaults or reads the file.
UpdateLoad(p, io) ==
    /\ calls[p].pc = "tested"
    /\ LET f == calls[p]
           l == update_user_preferences_load(files, f.user_id, f.exists, clock, io)
           seen == IF f.exists /\ files[f.user_id].kind = "json"
                   THEN ContainsOf(last) ELSE {}
       IN /\ files' = l.files
          /\ calls' = [calls EXCEPT ![p] =
                          UpdateFrame("loaded", f.user_id, f.updates, f.exists,
                                      l.ret, seen, FALSE)]
          /\ last' = IF ~f.exists /\ io # "open_error" THEN StoreWrite(0, {}) ELSE last
    /\ UNCHANGED <<app, google, ui, oauth, clock, conversation_memory, returned, clientVars, callVars>>

\* Caller p merges its updates into what it loaded and writes the file.
UpdateSave(p, io) ==
    /\ calls[p].pc = "loaded"
    /\ LET f == calls[p]
           s == update_user_preferences_write(files, f.user_id, f.prefs, f.updates,
                                              clock, io)
       IN /\ files' = s.files
          /\ calls' = [calls EXCEPT ![p] =
                          UpdateFrame("done", f.user_id, f.updates, f.exists,
                                      f.prefs, f.seen, s.ret)]
          /\ last' = CASE io = "ok" -> StoreWrite(p, f.seen \cup {p})
                       [] io = "write_error" -> StoreWrite(p, {})
                       [] io = "open_error" -> last
    /\ UNCHANGED <<app, google, ui, oauth, clock, conversation_memory, returned, clientVars, callVars>>

----------------------------------------------------------------------------
(* agents/assistant.py: AssistantAgent.process_message. *)

AssistantApology == "I'm sorry, I encountered an error while processing your message. Please try again."

\* The size above which the memory is cut, and how many of the last entries stay.
MemoryLimit == 20
KeptTail == 19

Entry(role, text, prefs) == [role |-> role, text |-> text, prefs |-> prefs]

\* s[-n:] of a list
Last(s, n) == IF Len(s) <= n THEN s ELSE SubSeq(s, Len(s) - n + 1, Len(s))

\* the cut keeping the last 20 entries, the first one not set apart
TrimMemory_last_only(mem) ==
    IF Len(mem) > MemoryLimit THEN Last(mem, MemoryLimit) ELSE mem

\* lines 366-368: if len(memory) > 20: memory = [memory[0]] + memory[-19:]
TrimMemory(mem) ==
    IF Len(mem) > MemoryLimit THEN <<mem[1]>> \o Last(mem, KeptTail) ELSE mem

IdleCall == [pc |-> "idle", message |-> "", user_id |-> ""]

\* an except clause that takes one kind of exception only
CalendarHandlers_narrow == <<"RuntimeError">>

\* The except clauses of the three process_message methods.
AssistantHandlers == <<"Exception">>
EmailHandlers == <<"Exception">>
CalendarHandlers == <<"Exception">>

\* try: result = await Runner.run(...); return result.final_output
\* except <handlers>: return <apology>
\* outcome is the runner's final output, or the exception it raised.
RunnerCall(handlers, apology, outcome) ==
    IF outcome \in RunnerErrors
    THEN IF Catches(handlers, outcome)
         THEN [raised |-> "none", value |-> apology]
         ELSE [raised |-> outcome, value |-> ""]
    ELSE [raised |-> "none", value |-> outcome]

\* a call that hands the runner the conversation so far with the message
RunnerInput_with_history(message, mem) ==
    IF mem = <<>> THEN message ELSE mem[Len(mem)].text \o message

\* line 359: Runner.run(self.assistant, input=message)
RunnerInput(message, mem) == message

Returned(agent, s, message, outcome, r) ==
    [agent |-> agent, slot |-> s, input |-> message, outcome |-> outcome,
     raised |-> r.raised, value |-> r.value]

\* a call that records the preferences of its user as a system entry whether
\* or not the memory is empty
AssistantBegin_every_caller(s, message, user_id, io) ==
    /\ calls[s].pc = "idle"
    /\ LET l == load_user_preferences(files, user_id, clock, io)
           mem == Append(conversation_memory, Entry("system", "User preferences: ", l.ret))
       IN /\ files' = l.files
          /\ conversation_memory' = Append(mem, Entry("user", message, EmptyDict))
    /\ calls' = [calls EXCEPT ![s] = [pc |-> "awaiting", message |-> message, user_id |-> user_id]]
    /\ UNCHANGED <<app, google, ui, oauth, clock, last, returned, clientVars, callVars>>

\* lines 346-359, up to the await of Runner.run
AssistantBegin(s, message, user_id, io) ==
    /\ calls[s].pc = "idle"
    /\ LET l == load_user_preferences(files, user_id, clock, io)
           mem == IF conversation_memory = <<>>
                  THEN <<Entry("system", "User preferences: ", l.ret)>>
                  ELSE conversation_memory
       IN /\ files' = l.files
          /\ conversation_memory' = Append(mem, Entry("user", message, EmptyDict))
    /\ calls' = [calls EXCEPT ![s] = [pc |-> "awaiting", message |-> message, user_id |-> user_id]]
    /\ UNCHANGED <<app, google, ui, oauth, clock, last, returned, clientVars, callVars>>

\* lines 360-370: Runner.run returned a result
AssistantReturn(s, output) ==
    /\ calls[s].pc = "awaiting"
    /\ conversation_memory' =
          TrimMemory(Append(conversation_memory, Entry("assistant", output, EmptyDict)))
    /\ returned' = Returned("assistant", s,
                            RunnerInput(calls[s].message, conversation_memory), output,
                            RunnerCall(AssistantHandlers, AssistantApology, output))
    /\ calls' = [calls EXCEPT ![s] = IdleCall]
    /\ UNCHANGED <<app, google, ui, oauth, prefVars, clientVars, callVars>>

\* lines 372-374: Runner.run raised e
AssistantRaise(s, e) ==
    /\ calls[s].pc = "awaiting"
    /\ returned' = Returned("assistant", s,
                            RunnerInput(calls[s].message, conversation_memory), e,
                            RunnerCall(AssistantHandlers, AssistantApology, e))
    /\ calls' = [calls EXCEPT ![s] = IdleCall]
    /\ UNCHANGED <<app, google, ui, oauth, prefVars, conversation_memory, clientVars, callVars>>

----------------------------------------------------------------------------
(* agents/email_agent.py and agents/calendar_agent.py: process_message. *)

EmailApology == "I'm sorry, I encountered an error while processing your email request. Please try again."
CalendarApology == "I'm sorry, I encountered an error while processing your calendar request. Please try again."

EmailAgent_process_message(message, outcome) ==
    /\ returned' = Returned("email", 0, message, outcome,
                            RunnerCall(EmailHandlers, EmailApology, outcome))
    /\ UNCHANGED <<app, google, ui, oauth, prefVars, conversation_memory, calls, clientVars, callVars>>

CalendarAgent_process_message(message, outcome) ==
    /\ returned' = Returned("calendar", 0, message, outcome,
                            RunnerCall(CalendarHandlers, CalendarApology, outcome))
    /\ UNCHANGED <<app, google, ui, oauth, prefVars, conversation_memory, calls, clientVars, callVars>>

----------------------------------------------------------------------------
(* services/gmail.py and services/calendar.py: the API clients.            *)
(*                                                                         *)
(* A Python value a method returns is [t, items]: a list with its items,   *)
(* None, a bool, or a dict (an API resource) with its id.                  *)

PyList(items) == [t |-> "list", items |-> items]
PyNone == [t |-> "None", items |-> <<>>]
PyBool(b) == [t |-> "bool", items |-> IF b THEN <<"True">> ELSE <<>>]
PyDict(id) == [t |-> "dict", items |-> <<id>>]

\* bool(v): an empty list, None and False are false
Truthy(v) == v.items # <<>>

\* the ids the API lists
ItemIds == <<"id1", "id2", "id3">>
\* list calls return at most this many items
MaxItems == 2

\* One request to the API, with what it did: "ok", or the exception it raised.
Request(verb, arg) == [verb |-> verb, arg |-> arg, out |-> "ok"]

\* The outcomes of the requests of one method call: the k-th raises e (none
\* when k = 0).
Outcomes(n, k, e) == [i \in 1..n |-> IF i = k THEN e ELSE "ok"]

\* the first request that raises, 0 when none does
FirstError(outs) ==
    IF \A i \in 1..Len(outs) : outs[i] = "ok" THEN 0
    ELSE CHOOSE i \in 1..Len(outs) : outs[i] # "ok" /\ \A j \in 1..(i - 1) : outs[j] = "ok"

\* an authenticate() that returns True without keeping the service it built
authenticate_forgets(service, a) ==
    [ok |-> a = "service", service |-> IF a = "service" THEN "None" ELSE service]

\* authenticate(): self.service = build_...(); return self.service is not None,
\* and False when that raised (self.service is then left as it was). a is what
\* build_gmail_service() / build_calendar_service() does: it returns a service,
\* returns None, or raises.
authenticate(service, a) ==
    CASE a = "service" -> [ok |-> TRUE, service |-> "service"]
      [] a = "none" -> [ok |-> FALSE, service |-> "None"]
      [] a = "raise" -> [ok |-> FALSE, service |-> service]

\* a frame that issues a request that raised a second time
ClientMethod_retries(service, a, handlers, sentinel, value, reqs, outs) ==
    LET auth == IF service = "None" THEN authenticate(service, a)
                ELSE [ok |-> TRUE, service |-> service]
        auths == IF service = "None" THEN 1 ELSE 0
        tried == IF service = "None" THEN a ELSE "cached"
        k == FirstError(outs)
    IN IF ~auth.ok
       THEN [ret |-> sentinel, raised |-> "none", service |-> auth.service,
             api |-> <<>>, auths |-> auths, auth |-> tried, failed |-> FALSE]
       ELSE IF k = 0
       THEN [ret |-> value, raised |-> "none", service |-> auth.service,
             api |-> reqs, auths |-> auths, auth |-> tried, failed |-> FALSE]
       ELSE [ret |-> IF Catches(handlers, outs[k]) THEN sentinel ELSE PyNone,
             raised |-> IF Catches(handlers, outs[k]) THEN "none" ELSE outs[k],
             service |-> auth.service, auths |-> auths, auth |-> tried,
             api |-> [i \in 1..(k + 1) |-> IF i >= k THEN [reqs[k] EXCEPT !.out = outs[k]]
                                            ELSE reqs[i]],
             failed |-> TRUE]

\* The frame every method shares:
\*     if not self.service:
\*         if not self.authenticate(): return <sentinel>
\*     try: <the requests, in order>; return <value>
\*     except <handlers>: return <sentinel>
\* reqs are the requests the body makes when none raises, outs their outcomes.
ClientMethod(service, a, handlers, sentinel, value, reqs, outs) ==
    LET auth == IF service = "None" THEN authenticate(service, a)
                ELSE [ok |-> TRUE, service |-> service]
        auths == IF service = "None" THEN 1 ELSE 0
        tried == IF service = "None" THEN a ELSE "cached"
        k == FirstError(outs)
    IN IF ~auth.ok
       THEN [ret |-> sentinel, raised |-> "none", service |-> auth.service,
             api |-> <<>>, auths |-> auths, auth |-> tried, failed |-> FALSE]
       ELSE IF k = 0
       THEN [ret |-> value, raised |-> "none", service |-> auth.service,
             api |-> reqs, auths |-> auths, auth |-> tried, failed |-> FALSE]
       ELSE [ret |-> IF Catches(handlers, outs[k]) THEN sentinel ELSE PyNone,
             raised |-> IF Catches(handlers, outs[k]) THEN "none" ELSE outs[k],
             service |-> auth.service, auths |-> auths, auth |-> tried,
             api |-> [i \in 1..k |-> IF i = k THEN [reqs[i] EXCEPT !.out = outs[k]]
                                      ELSE reqs[i]],
             failed |-> TRUE]

\* messages().list(...) followed by one messages().get(...) per listed id
ListThenGet(n) ==
    <<Request("messages.list", <<>>)>> \o [i \in 1..n |-> Request("messages.get", <<ItemIds[i]>>)]

GmailService_send_email(service, a, outs) ==
    ClientMethod(service, a, <<"HttpError", "Exception">>, PyBool(FALSE), PyBool(TRUE),
                 <<Request("messages.send", <<>>)>>, outs)

GmailService_get_unread_emails(service, a, n, outs) ==
    ClientMethod(service, a, <<"HttpError", "Exception">>, PyList(<<>>),
                 PyList(SubSeq(ItemIds, 1, n)), ListThenGet(n), outs)

GmailService_mark_as_read_http_only(service, a, message_id, outs) ==
    ClientMethod(service, a, <<"HttpError">>, PyBool(FALSE), PyBool(TRUE),
                 <<Request("messages.modify", <<message_id>>)>>, outs)

GmailService_mark_as_read(service, a, message_id, outs) ==
    ClientMethod(service, a, <<"Exception">>, PyBool(FALSE), PyBool(TRUE),
                 <<Request("messages.modify", <<message_id>>)>>, outs)

GmailService_search_emails(service, a, n, outs) ==
    ClientMethod(service, a, <<"Exception">>, PyList(<<>>),
                 PyList(SubSeq(ItemIds, 1, n)), ListThenGet(n), outs)

\* messages: the ids of thread['messages'] in the API's answer
GmailService_get_email_thread(service, a, thread_id, messages, outs) ==
    ClientMethod(service, a, <<"Exception">>, PyList(<<>>), PyList(messages),
                 <<Request("threads.get", <<thread_id>>)>>, outs)

CalendarService_get_upcoming_events(service, a, n, outs) ==
    ClientMethod(service, a, <<"HttpError", "Exception">>, PyList(<<>>),
                 PyList(SubSeq(ItemIds, 1, n)), <<Request("events.list", <<>>)>>, outs)

\* start and end: start_time.isoformat() and end_time.isoformat()
CalendarService_create_event(service, a, start, end, outs) ==
    ClientMethod(service, a, <<"HttpError", "Exception">>, PyNone, PyDict("created"),
                 <<Request("events.insert", <<start, end>>)>>, outs)

\* an update_event that sends the update without reading the event first
CalendarService_update_event_blind(service, a, event_id, outs) ==
    ClientMethod(service, a, <<"HttpError", "Exception">>, PyNone, PyDict(event_id),
                 <<Request("events.update", <<event_id>>)>>, SubSeq(outs, 1, 1))

\* events().get, the merge of updates into the event (a step that raises
\* TypeError when a start/end value is no mapping), then events().update
CalendarService_update_event(service, a, event_id, outs) ==
    ClientMethod(service, a, <<"HttpError", "Exception">>, PyNone, PyDict(event_id),
                 <<Request("events.get", <<event_id>>), Request("merge", <<>>),
                   Request("events.update", <<event_id>>)>>, outs)

\* a delete_event that goes on to its request after a failed authenticate()
CalendarService_delete_event_unguarded(service, a, event_id, outs) ==
    LET r == ClientMethod(service, a, <<"HttpError", "Exception">>, PyBool(FALSE), PyBool(TRUE),
                          <<Request("events.delete", <<event_id>>)>>, outs)
    IN IF r.auth \in {"none", "raise"}
       THEN [r EXCEPT !.api = <<Request("events.delete", <<event_id>>)>>]
       ELSE r

CalendarService_delete_event(service, a, event_id, outs) ==
    ClientMethod(service, a, <<"HttpError", "Exception">>, PyBool(FALSE), PyBool(TRUE),
                 <<Request("events.delete", <<event_id>>)>>, outs)

CalendarService_get_event_details(service, a, event_id, outs) ==
    ClientMethod(service, a, <<"HttpError", "Exception">>, PyNone, PyDict(event_id),
                 <<Request("events.get", <<event_id>>)>>, outs)

CalendarService_search_events(service, a, n, outs) ==
    ClientMethod(service, a, <<"HttpError", "Exception">>, PyList(<<>>),
                 PyList(SubSeq(ItemIds, 1, n)), <<Request("events.list", <<>>)>>, outs)

\* A caller invokes a method of the GmailService instance; r is its result.
GmailCall(method, r) ==
    /\ gmail_service' = r.service
    /\ client' = [class |-> "GmailService", method |-> method, ret |-> r.ret,
                  raised |-> r.raised, api |-> r.api, auths |-> r.auths, auth |-> r.auth, failed |-> r.failed]
    /\ UNCHANGED <<app, google, ui, oauth, prefVars, memVars, calendar_service, callVars>>

\* A caller invokes a method of the CalendarService instance; r is its result.
CalendarCall(method, r) ==
    /\ calendar_service' = r.service
    /\ client' = [class |-> "CalendarService", method |-> method, ret |-> r.ret,
                  raised |-> r.raised, api |-> r.api, auths |-> r.auths, auth |-> r.auth, failed |-> r.failed]
    /\ UNCHANGED <<app, google, ui, oauth, prefVars, memVars, gmail_service, callVars>>

----------------------------------------------------------------------------
(* services/web_search.py and the dates of the datetime module.            *)

\* search(): [] without an API key, on a status other than 200 and on any
\* exception; the n organic results otherwise
WebSearchService_search(has_key, x, n) ==
    IF has_key /\ x = "ok" THEN PyList(SubSeq(ItemIds, 1, n)) ELSE PyList(<<>>)

\* search_sync(): asyncio.run(self.search(...)), which raises RuntimeError
\* when the calling thread already runs an event loop
WebSearchService_search_sync(loop_running, has_key, x, n) ==
    IF loop_running
    THEN [ret |-> PyNone, raised |-> "RuntimeError"]
    ELSE [ret |-> WebSearchService_search(has_key, x, n), raised |-> "none"]

\* The strings datetime.fromisoformat accepts, with the hour of the datetime
\* each denotes (all on one day); any other string makes it raise ValueError.
IsoTable == {<<"2025-01-01T09:00:00", 9>>, <<"2025-01-01T10:00:00", 10>>,
             <<"2025-01-01T00:00:00", 0>>, <<"2025-01-01", 0>>}
DateStrings == {"2025-01-01T09:00:00", "2025-01-01T10:00:00", "2025-01-01", "tomorrow"}

IsIso(s) == \E p \in IsoTable : p[1] = s
fromisoformat(s) == (CHOOSE p \in IsoTable : p[1] = s)[2]
isoformat(dt) ==
    CASE dt = 0 -> "2025-01-01T00:00:00"
      [] dt = 9 -> "2025-01-01T09:00:00"
      [] dt = 10 -> "2025-01-01T10:00:00"

----------------------------------------------------------------------------
(* The tool functions of agents/assistant.py, agents/email_agent.py and    *)
(* personal_assistant/agents/calendar_agent.py. Each agent class holds its *)
(* own GmailService / CalendarService; one instance of each is modelled.   *)

\* The record of one invocation: what the tool returned or raised, the client
\* methods it called in order, and the requests those sent to the API.
ToolCall(agent, name, args, data, ret, raised, clients, api) ==
    [agent |-> agent, name |-> name, args |-> args, data |-> data,
     ret |-> IF raised = "none" THEN ret ELSE "", raised |-> raised,
     clients |-> clients, api |-> api]

\* A tool that makes one GmailService call with result r and returns text.
GmailTool(agent, name, args, method, r, text) ==
    /\ gmail_service' = r.service
    /\ tool' = ToolCall(agent, name, args, r.ret.items, text, r.raised, <<method>>, r.api)
    /\ UNCHANGED <<app, google, ui, oauth, prefVars, memVars, calendar_service, client, response>>

\* A tool that makes one CalendarService call with result r and returns text.
CalendarTool(agent, name, args, method, r, text) ==
    /\ calendar_service' = r.service
    /\ tool' = ToolCall(agent, name, args, r.ret.items, text, r.raised, <<method>>, r.api)
    /\ UNCHANGED <<app, google, ui, oauth, prefVars, memVars, gmail_service, client, response>>

\* A tool that returns before it calls any client.
NoClientTool(agent, name, args, text) ==
    /\ tool' = ToolCall(agent, name, args, <<>>, text, "none", <<>>, <<>>)
    /\ UNCHANGED <<app, google, ui, oauth, prefVars, memVars, clientVars, response>>

\* f"...{len(items)}..."
Counted(prefix, v, suffix) == prefix \o ToString(Len(v.items)) \o suffix

\* --- agents/assistant.py ---

Assistant_search_web(loop_running, has_key, x, n) ==
    LET r == WebSearchService_search_sync(loop_running, has_key, x, n)
    IN /\ tool' = ToolCall("AssistantAgent", "search_web", <<>>, r.ret.items,
                           IF ~Truthy(r.ret) THEN "No results found for your query."
                           ELSE "Here's what I found on the web:",
                           r.raised, <<"WebSearchService.search_sync">>, <<>>)
       /\ UNCHANGED <<app, google, ui, oauth, prefVars, memVars, clientVars, response>>

Assistant_get_user_preferences(user_id, io) ==
    LET l == load_user_preferences(files, user_id, clock, io)
    IN /\ files' = l.files
       /\ tool' = ToolCall("AssistantAgent", "get_user_preferences", <<user_id>>, <<>>,
                           "User Preferences:", "none", <<"load_user_preferences">>, <<>>)
       /\ UNCHANGED <<app, google, ui, oauth, clock, last, memVars, clientVars, response>>

Assistant_update_preference(user_id, preference_name, preference_value, io1, io2) ==
    LET updates == preference_name :> preference_value
        r == update_user_preferences(files, user_id, updates, clock, io1, io2)
    IN /\ files' = r.files
       /\ tool' = ToolCall("AssistantAgent", "update_preference",
                           <<user_id, preference_name, preference_value>>, <<>>,
                           IF r.ret THEN "Successfully updated " \o preference_name
                           ELSE "Failed to update " \o preference_name,
                           "none", <<"update_user_preferences">>, <<>>)
       /\ UNCHANGED <<app, google, ui, oauth, clock, last, memVars, clientVars, response>>

Assistant_get_unread_emails(a, n, outs) ==
    LET r == GmailService_get_unread_emails(gmail_service, a, n, outs)
    IN GmailTool("AssistantAgent", "get_unread_emails", <<>>, "GmailService.get_unread_emails", r,
                 IF ~Truthy(r.ret) THEN "You have no unread emails."
                 ELSE Counted("You have ", r.ret, " unread emails:"))

Assistant_send_email(a, outs) ==
    LET r == GmailService_send_email(gmail_service, a, outs)
    IN GmailTool("AssistantAgent", "send_email", <<>>, "GmailService.send_email", r,
                 IF Truthy(r.ret) THEN "Email sent successfully"
                 ELSE "Failed to send email. Please try again.")

Assistant_search_emails(a, n, outs) ==
    LET r == GmailService_search_emails(gmail_service, a, n, outs)
    IN GmailTool("AssistantAgent", "search_emails", <<>>, "GmailService.search_emails", r,
                 IF ~Truthy(r.ret) THEN "No emails found matching"
                 ELSE Counted("Found ", r.ret, " emails matching"))

Assistant_get_upcoming_events(a, n, outs) ==
    LET r == CalendarService_get_upcoming_events(calendar_service, a, n, outs)
    IN CalendarTool("AssistantAgent", "get_upcoming_events", <<>>,
                    "CalendarService.get_upcoming_events", r,
                    IF ~Truthy(r.ret) THEN "You have no upcoming events."
                    ELSE Counted("You have ", r.ret, " upcoming events:"))

\* both fromisoformat calls are inside the try whose handler is ValueError
Assistant_create_calendar_event(start_time, end_time, a, outs) ==
    IF ~IsIso(start_time) \/ ~IsIso(end_time)
    THEN NoClientTool("AssistantAgent", "create_calendar_event", <<start_time, end_time>>,
                      "Invalid date format")
    ELSE LET r == CalendarService_create_event(calendar_service, a,
                      isoformat(fromisoformat(start_time)),
                      isoformat(fromisoformat(end_time)), outs)
         IN CalendarTool("AssistantAgent", "create_calendar_event", <<start_time, end_time>>,
                         "CalendarService.create_event", r,
                         IF Truthy(r.ret) THEN "Event created successfully."
                         ELSE "Failed to create event. Please try again.")

Assistant_search_calendar_events(a, n, outs) ==
    LET r == CalendarService_search_events(calendar_service, a, n, outs)
    IN CalendarTool("AssistantAgent", "search_calendar_events", <<>>,
                    "CalendarService.search_events", r,
                    IF ~Truthy(r.ret) THEN "No events found matching"
                    ELSE Counted("Found ", r.ret, " events matching"))

\* --- agents/email_agent.py ---

EmailAgent_get_unread_emails(a, n, outs) ==
    LET r == GmailService_get_unread_emails(gmail_service, a, n, outs)
    IN GmailTool("EmailAgent", "get_unread_emails", <<>>, "GmailService.get_unread_emails", r,
                 IF ~Truthy(r.ret) THEN "You have no unread emails."
                 ELSE Counted("You have ", r.ret, " unread emails:"))

EmailAgent_send_email(a, outs) ==
    LET r == GmailService_send_email(gmail_service, a, outs)
    IN GmailTool("EmailAgent", "send_email", <<>>, "GmailService.send_email", r,
                 IF Truthy(r.ret) THEN "Email sent successfully"
                 ELSE "Failed to send email. Please try again.")

EmailAgent_search_emails(a, n, outs) ==
    LET r == GmailService_search_emails(gmail_service, a, n, outs)
    IN GmailTool("EmailAgent", "search_emails", <<>>, "GmailService.search_emails", r,
                 IF ~Truthy(r.ret) THEN "No emails found matching"
                 ELSE Counted("Found ", r.ret, " emails matching"))

\* a lookup that takes any message of the thread for the one asked for
next_by_id_any(thread, email_id) == thread # <<>>

\* next((msg for msg in thread if msg['id'] == email_id), None) is not None
next_by_id(thread, email_id) == \E i \in 1..Len(thread) : thread[i] = email_id

\* a tool that marks the message read as soon as the thread has been asked for
EmailAgent_read_email_marks_first(email_id, a, messages, outs, a2, outs2) ==
    LET thread == GmailService_get_email_thread(gmail_service, a, email_id, messages, outs)
        mark == GmailService_mark_as_read(thread.service, a2, email_id, outs2)
        found == thread.raised = "none" /\ Truthy(thread.ret)
                     /\ next_by_id(thread.ret.items, email_id)
    IN /\ gmail_service' = mark.service
       /\ tool' = ToolCall("EmailAgent", "read_email", <<email_id>>, thread.ret.items,
                           IF found THEN "From:" ELSE "Could not find email",
                           IF thread.raised # "none" THEN thread.raised ELSE mark.raised,
                           <<"GmailService.get_email_thread", "GmailService.mark_as_read">>,
                           thread.api \o mark.api)
       /\ UNCHANGED <<app, google, ui, oauth, prefVars, memVars, calendar_service, client, response>>

\* get_email_thread(email_id), then mark_as_read(email_id) when the thread holds
\* a message with that id
EmailAgent_read_email(email_id, a, messages, outs, a2, outs2) ==
    LET thread == GmailService_get_email_thread(gmail_service, a, email_id, messages, outs)
        mark == GmailService_mark_as_read(thread.service, a2, email_id, outs2)
    IN IF thread.raised # "none" \/ ~Truthy(thread.ret)
       THEN GmailTool("EmailAgent", "read_email", <<email_id>>,
                      "GmailService.get_email_thread", thread, "Could not find email")
       ELSE IF ~next_by_id(thread.ret.items, email_id)
       THEN GmailTool("EmailAgent", "read_email", <<email_id>>,
                      "GmailService.get_email_thread", thread,
                      "Could not find email in the thread")
       ELSE /\ gmail_service' = mark.service
            /\ tool' = ToolCall("EmailAgent", "read_email", <<email_id>>, thread.ret.items,
                                "From:", mark.raised,
                                <<"GmailService.get_email_thread", "GmailService.mark_as_read">>,
                                thread.api \o mark.api)
            /\ UNCHANGED <<app, google, ui, oauth, prefVars, memVars, calendar_service, client, response>>

EmailAgent_get_email_thread(thread_id, a, messages, outs) ==
    LET r == GmailService_get_email_thread(gmail_service, a, thread_id, messages, outs)
    IN GmailTool("EmailAgent", "get_email_thread", <<thread_id>>,
                 "GmailService.get_email_thread", r,
                 IF ~Truthy(r.ret) THEN "Could not find thread"
                 ELSE Counted("Email thread with ", r.ret, " messages:"))

\* --- personal_assistant/agents/calendar_agent.py ---

CalendarAgent_get_upcoming_events(a, n, outs) ==
    LET r == CalendarService_get_upcoming_events(calendar_service, a, n, outs)
    IN CalendarTool("CalendarAgent", "get_upcoming_events", <<>>,
                    "CalendarService.get_upcoming_events", r,
                    IF ~Truthy(r.ret) THEN "You have no upcoming events."
                    ELSE Counted("You have ", r.ret, " upcoming events:"))

\* both fromisoformat calls are inside the try whose handler is ValueError
CalendarAgent_create_calendar_event(start_time, end_time, a, outs) ==
    IF ~IsIso(start_time) \/ ~IsIso(end_time)
    THEN NoClientTool("CalendarAgent", "create_calendar_event", <<start_time, end_time>>,
                      "Invalid date format")
    ELSE LET r == CalendarService_create_event(calendar_service, a,
                      isoformat(fromisoformat(start_time)),
                      isoformat(fromisoformat(end_time)), outs)
         IN CalendarTool("CalendarAgent", "create_calendar_event", <<start_time, end_time>>,
                         "CalendarService.create_event", r,
                         IF Truthy(r.ret) THEN "Event created successfully."
                         ELSE "Failed to create event. Please try again.")

CalendarAgent_search_calendar_events(a, n, outs) ==
    LET r == CalendarService_search_events(calendar_service, a, n, outs)
    IN CalendarTool("CalendarAgent", "search_calendar_events", <<>>,
                    "CalendarService.search_events", r,
                    IF ~Truthy(r.ret) THEN "No events found matching"
                    ELSE Counted("Found ", r.ret, " events matching"))

\* event['start'] raises KeyError when the resource the API returned has no
\* start (has_start is FALSE), as for a cancelled instance of a recurring event
CalendarAgent_get_event_details(event_id, has_start, a, outs) ==
    LET r == CalendarService_get_event_details(calendar_service, a, event_id, outs)
    IN /\ calendar_service' = r.service
       /\ tool' = ToolCall("CalendarAgent", "get_event_details", <<event_id>>, r.ret.items,
                           IF ~Truthy(r.ret) THEN "Could not find event" ELSE "Event:",
                           IF r.raised # "none" THEN r.raised
                           ELSE IF Truthy(r.ret) /\ ~has_start THEN "KeyError" ELSE "none",
                           <<"CalendarService.get_event_details">>, r.api)
       /\ UNCHANGED <<app, google, ui, oauth, prefVars, memVars, gmail_service, client, response>>

\* a tool that parses only the first item of updates before it calls the client
CalendarAgent_update_calendar_event_first_only(event_id, updates, a, outs) ==
    LET times == SelectSeq(updates, LAMBDA u : u[1] \in {"start", "end"})
        args == <<event_id>> \o [i \in 1..Len(times) |-> times[i][2]]
        r == CalendarService_update_event(calendar_service, a, event_id, outs)
    IN IF updates[1][1] \in {"start", "end"} /\ ~IsIso(updates[1][2])
       THEN NoClientTool("CalendarAgent", "update_calendar_event", args,
                         "Invalid date format for " \o updates[1][1])
       ELSE CalendarTool("CalendarAgent", "update_calendar_event", args,
                         "CalendarService.update_event", r,
                         IF Truthy(r.ret) THEN "Event updated successfully."
                         ELSE "Failed to update event")

\* updates: the items of the dict in order, each <<key, value>> with a string
\* value; the first start/end value that is no ISO string ends the call
CalendarAgent_update_calendar_event(event_id, updates, a, outs) ==
    LET bad == {i \in 1..Len(updates) :
                    updates[i][1] \in {"start", "end"} /\ ~IsIso(updates[i][2])}
        times == SelectSeq(updates, LAMBDA u : u[1] \in {"start", "end"})
        args == <<event_id>> \o [i \in 1..Len(times) |-> times[i][2]]
        r == CalendarService_update_event(calendar_service, a, event_id, outs)
    IN IF bad # {}
       THEN NoClientTool("CalendarAgent", "update_calendar_event", args,
                         "Invalid date format for " \o
                             updates[CHOOSE i \in bad : \A j \in bad : i <= j][1])
       ELSE CalendarTool("CalendarAgent", "update_calendar_event", args,
                         "CalendarService.update_event", r,
                         IF Truthy(r.ret) THEN "Event updated successfully."
                         ELSE "Failed to update event")

CalendarAgent_delete_calendar_event(event_id, a, outs) ==
    LET r == CalendarService_delete_event(calendar_service, a, event_id, outs)
    IN CalendarTool("CalendarAgent", "delete_calendar_event", <<event_id>>,
                    "CalendarService.delete_event", r,
                    IF Truthy(r.ret) THEN "Event deleted successfully."
                    ELSE "Failed to delete event")

----------------------------------------------------------------------------
(* The route handlers: app/routes/api.py, personal_assistant/app/main.py,  *)
(* app/routes/calendar.py and personal_assistant/app/routes/auth.py.       *)

\* An exception: its class, str(e), and for an HTTPException its status_code
\* and detail. str() of an HTTPException is "<status_code>: <detail>".
NoExc == [type |-> "none", msg |-> "", status |-> 0, detail |-> ""]
Exc(type, msg) == [type |-> type, msg |-> msg, status |-> 0, detail |-> ""]
HTTPException(status_code, detail) ==
    [type |-> "HTTPException", msg |-> ToString(status_code) \o ": " \o detail,
     status |-> status_code, detail |-> detail]

\* what a client or agent call raised, as an exception
Raised(type) == IF type = "none" THEN NoExc ELSE Exc(type, type \o " raised")

\* The except clauses of the handlers:
\*   except Exception as e: raise HTTPException(status_code=500, detail=str(e))
\*   except ValueError as e: raise HTTPException(400, f"Invalid date format: {e}")
\*   except HTTPException: raise
\*   except Exception as e: raise HTTPException(500, f"Error ...: {str(e)}")
Wrap500 == [cls |-> "Exception", reraise |-> FALSE, status |-> 500, prefix |-> ""]
Wrap400 == [cls |-> "ValueError", reraise |-> FALSE, status |-> 400,
            prefix |-> "Invalid date format: "]
Reraise == [cls |-> "HTTPException", reraise |-> TRUE, status |-> 0, prefix |-> ""]
Wrap500As(prefix) == [cls |-> "Exception", reraise |-> FALSE, status |-> 500, prefix |-> prefix]

\* a try statement whose clauses let every HTTPException through
Except_passes_http(clauses, e) ==
    IF e.type = "HTTPException" \/ ~\E i \in 1..Len(clauses) : isinstance(e.type, clauses[i].cls)
    THEN e
    ELSE LET c == clauses[CHOOSE i \in 1..Len(clauses) :
                              /\ isinstance(e.type, clauses[i].cls)
                              /\ \A j \in 1..(i - 1) : ~isinstance(e.type, clauses[j].cls)]
         IN IF c.reraise THEN e ELSE HTTPException(c.status, c.prefix \o e.msg)

\* The exception that leaves a try statement with these clauses when its body
\* raised e: the first clause whose class e is an instance of handles it.
Except(clauses, e) ==
    IF ~\E i \in 1..Len(clauses) : isinstance(e.type, clauses[i].cls)
    THEN e
    ELSE LET c == clauses[CHOOSE i \in 1..Len(clauses) :
                              /\ isinstance(e.type, clauses[i].cls)
                              /\ \A j \in 1..(i - 1) : ~isinstance(e.type, clauses[j].cls)]
         IN IF c.reraise THEN e ELSE HTTPException(c.status, c.prefix \o e.msg)

\* The response to a request whose handler body raised e (NoExc: it returned)
\* inside a try with these clauses. An HTTPException becomes a response with
\* its status and detail; anything else is the framework's bare 500.
Respond(handler, args, clauses, e, api) ==
    LET out == Except(clauses, e)
    IN [handler |-> handler, args |-> args, api |-> api,
        exc |-> e.msg, exctype |-> e.type,
        status |-> IF e.type = "none" THEN 200
                   ELSE IF out.type = "HTTPException" THEN out.status ELSE 500,
        detail |-> IF e.type = "none" THEN ""
                   ELSE IF out.type = "HTTPException" THEN out.detail
                   ELSE "Internal Server Error"]

\* AssistantAgent.process_message from call to return, as a handler awaits it
AssistantAgent_process_message(mem, fs, message, user_id, now, io, outcome) ==
    LET l == load_user_preferences(fs, user_id, now, io)
        m0 == IF mem = <<>> THEN <<Entry("system", "User preferences: ", l.ret)>> ELSE mem
        m1 == Append(m0, Entry("user", message, EmptyDict))
        r == RunnerCall(AssistantHandlers, AssistantApology, outcome)
    IN [files |-> l.files, raised |-> r.raised, value |-> r.value,
        memory |-> IF outcome \in RunnerErrors THEN m1
                   ELSE TrimMemory(Append(m1, Entry("assistant", outcome, EmptyDict)))]

\* A handler whose body is one GmailService call with result r, and which
\* raises e itself when the call returned.
GmailRoute(handler, args, clauses, r, e) ==
    /\ gmail_service' = r.service
    /\ response' = Respond(handler, args, clauses,
                           IF r.raised # "none" THEN Raised(r.raised) ELSE e, r.api)
    /\ UNCHANGED <<app, google, ui, oauth, prefVars, memVars, calendar_service, client, tool>>

\* The same for one CalendarService call.
CalendarRoute(handler, args, clauses, r, e) ==
    /\ calendar_service' = r.service
    /\ response' = Respond(handler, args, clauses,
                           IF r.raised # "none" THEN Raised(r.raised) ELSE e, r.api)
    /\ UNCHANGED <<app, google, ui, oauth, prefVars, memVars, gmail_service, client, tool>>

\* A handler that touches no client and no store.
PlainRoute(handler, args, clauses, e) ==
    /\ response' = Respond(handler, args, clauses, e, <<>>)
    /\ UNCHANGED <<app, google, ui, oauth, prefVars, memVars, clientVars, tool>>

\* --- app/routes/api.py ---

\* POST /api/chat
api_chat(message, user_id, io, outcome) ==
    LET p == AssistantAgent_process_message(conversation_memory, files, message, user_id,
                                            clock, io, outcome)
    IN /\ \A s \in 1..NumSlots : calls[s].pc = "idle"
       /\ files' = p.files
       /\ conversation_memory' = p.memory
       /\ response' = Respond("api.chat", <<message>>, <<Wrap500>>, Raised(p.raised), <<>>)
       /\ UNCHANGED <<app, google, ui, oauth, clock, last, calls, returned, clientVars, tool>>

\* POST /api/email
api_email_chat(message, outcome) ==
    LET r == RunnerCall(EmailHandlers, EmailApology, outcome)
    IN /\ response' = Respond("api.email_chat", <<message>>, <<Wrap500>>, Raised(r.raised), <<>>)
       /\ UNCHANGED <<app, google, ui, oauth, prefVars, memVars, clientVars, tool>>

\* POST /api/calendar
api_calendar_chat(message, outcome) ==
    LET r == RunnerCall(CalendarHandlers, CalendarApology, outcome)
    IN /\ response' = Respond("api.calendar_chat", <<message>>, <<Wrap500>>, Raised(r.raised), <<>>)
       /\ UNCHANGED <<app, google, ui, oauth, prefVars, memVars, clientVars, tool>>

\* POST /api/email/send: the HTTPException raised inside the try on a false
\* result is caught by the except Exception below it
api_send_email(a, outs) ==
    LET r == GmailService_send_email(gmail_service, a, outs)
    IN GmailRoute("api.send_email", <<>>, <<Wrap500>>, r,
                  IF Truthy(r.ret) THEN NoExc ELSE HTTPException(500, "Failed to send email"))

\* GET /api/email/unread
api_get_unread_emails(a, n, outs) ==
    GmailRoute("api.get_unread_emails", <<>>, <<Wrap500>>,
               GmailService_get_unread_emails(gmail_service, a, n, outs), NoExc)

\* GET /api/email/search
api_search_emails(a, n, outs) ==
    GmailRoute("api.search_emails", <<>>, <<Wrap500>>,
               GmailService_search_emails(gmail_service, a, n, outs), NoExc)

\* a handler that answers 400 to an end that is not after the start
api_create_calendar_event_ordered(start_time, end_time, a, outs) ==
    IF ~IsIso(start_time) \/ ~IsIso(end_time)
    THEN PlainRoute("api.create_calendar_event", <<start_time, end_time>>, <<Wrap400, Wrap500>>,
                    Exc("ValueError", "Invalid isoformat string"))
    ELSE IF fromisoformat(end_time) <= fromisoformat(start_time)
    THEN PlainRoute("api.create_calendar_event", <<start_time, end_time>>, <<Wrap400, Wrap500>>,
                    Exc("ValueError", "end before start"))
    ELSE LET r == CalendarService_create_event(calendar_service, a,
                      isoformat(fromisoformat(start_time)),
                      isoformat(fromisoformat(end_time)), outs)
         IN CalendarRoute("api.create_calendar_event", <<start_time, end_time>>,
                          <<Wrap400, Wrap500>>, r,
                          IF Truthy(r.ret) THEN NoExc
                          ELSE HTTPException(500, "Failed to create event"))

\* POST /api/calendar/create: fromisoformat of both strings, then create_event
api_create_calendar_event(start_time, end_time, a, outs) ==
    IF ~IsIso(start_time) \/ ~IsIso(end_time)
    THEN PlainRoute("api.create_calendar_event", <<start_time, end_time>>, <<Wrap400, Wrap500>>,
                    Exc("ValueError", "Invalid isoformat string"))
    ELSE LET r == CalendarService_create_event(calendar_service, a,
                      isoformat(fromisoformat(start_time)),
                      isoformat(fromisoformat(end_time)), outs)
         IN CalendarRoute("api.create_calendar_event", <<start_time, end_time>>,
                          <<Wrap400, Wrap500>>, r,
                          IF Truthy(r.ret) THEN NoExc
                          ELSE HTTPException(500, "Failed to create event"))

\* GET /api/calendar/events
api_get_upcoming_events(a, n, outs) ==
    CalendarRoute("api.get_upcoming_events", <<>>, <<Wrap500>>,
                  CalendarService_get_upcoming_events(calendar_service, a, n, outs), NoExc)

\* GET /api/calendar/search
api_search_calendar_events(a, n, outs) ==
    CalendarRoute("api.search_calendar_events", <<>>, <<Wrap500>>,
                  CalendarService_search_events(calendar_service, a, n, outs), NoExc)

\* GET /api/preferences/{user_id}
api_get_preferences(user_id, io) ==
    LET l == load_user_preferences(files, user_id, clock, io)
    IN /\ files' = l.files
       /\ response' = Respond("api.get_preferences", <<user_id>>, <<Wrap500>>, NoExc, <<>>)
       /\ UNCHANGED <<app, google, ui, oauth, clock, last, memVars, clientVars, tool>>

\* POST /api/preferences/{user_id}: update_user_preferences and, when it
\* returned True, load_user_preferences for the body of the response
api_update_preferences(user_id, updates, io1, io2, io3) ==
    LET r == update_user_preferences(files, user_id, updates, clock, io1, io2)
        l == load_user_preferences(r.files, user_id, clock, io3)
    IN /\ files' = IF r.ret THEN l.files ELSE r.files
       /\ response' = Respond("api.update_preferences", <<user_id>>, <<Wrap500>>,
                              IF r.ret THEN NoExc
                              ELSE HTTPException(500, "Failed to update preferences"), <<>>)
       /\ UNCHANGED <<app, google, ui, oauth, clock, last, memVars, clientVars, tool>>

\* --- personal_assistant/app/main.py ---

\* POST /api/chat
main_chat(message, user_id, io, outcome) ==
    LET p == AssistantAgent_process_message(conversation_memory, files, message, user_id,
                                            clock, io, outcome)
    IN /\ \A s \in 1..NumSlots : calls[s].pc = "idle"
       /\ files' = p.files
       /\ conversation_memory' = p.memory
       /\ response' = Respond("main.chat", <<message>>, <<Wrap500>>, Raised(p.raised), <<>>)
       /\ UNCHANGED <<app, google, ui, oauth, clock, last, calls, returned, clientVars, tool>>

\* POST /api/email
main_email_chat(message, outcome) ==
    LET r == RunnerCall(EmailHandlers, EmailApology, outcome)
    IN /\ response' = Respond("main.email_chat", <<message>>, <<Wrap500>>, Raised(r.raised), <<>>)
       /\ UNCHANGED <<app, google, ui, oauth, prefVars, memVars, clientVars, tool>>

\* POST /api/calendar
main_calendar_chat(message, outcome) ==
    LET r == RunnerCall(CalendarHandlers, CalendarApology, outcome)
    IN /\ response' = Respond("main.calendar_chat", <<message>>, <<Wrap500>>, Raised(r.raised), <<>>)
       /\ UNCHANGED <<app, google, ui, oauth, prefVars, memVars, clientVars, tool>>

\* POST /api/email/send: the HTTPException raised inside the try on a false
\* result is caught by the except Exception below it
main_send_email(a, outs) ==
    LET r == GmailService_send_email(gmail_service, a, outs)
    IN GmailRoute("main.send_email", <<>>, <<Wrap500>>, r,
                  IF Truthy(r.ret) THEN NoExc ELSE HTTPException(500, "Failed to send email"))

\* POST /api/calendar/create: fromisoformat of both strings, then create_event
main_create_calendar_event(start_time, end_time, a, outs) ==
    IF ~IsIso(start_time) \/ ~IsIso(end_time)
    THEN PlainRoute("main.create_calendar_event", <<start_time, end_time>>, <<Wrap400, Wrap500>>,
                    Exc("ValueError", "Invalid isoformat string"))
    ELSE LET r == CalendarService_create_event(calendar_service, a,
                      isoformat(fromisoformat(start_time)),
                      isoformat(fromisoformat(end_time)), outs)
         IN CalendarRoute("main.create_calendar_event", <<start_time, end_time>>,
                          <<Wrap400, Wrap500>>, r,
                          IF Truthy(r.ret) THEN NoExc
                          ELSE HTTPException(500, "Failed to create event"))

\* GET /api/preferences/{user_id}
main_get_preferences(user_id, io) ==
    LET l == load_user_preferences(files, user_id, clock, io)
    IN /\ files' = l.files
       /\ response' = Respond("main.get_preferences", <<user_id>>, <<Wrap500>>, NoExc, <<>>)
       /\ UNCHANGED <<app, google, ui, oauth, clock, last, memVars, clientVars, tool>>

\* POST /api/preferences/{user_id}: update_user_preferences and, when it
\* returned True, load_user_preferences for the body of the response
main_update_preferences(user_id, updates, io1, io2, io3) ==
    LET r == update_user_preferences(files, user_id, updates, clock, io1, io2)
        l == load_user_preferences(r.files, user_id, clock, io3)
    IN /\ files' = IF r.ret THEN l.files ELSE r.files
       /\ response' = Respond("main.update_preferences", <<user_id>>, <<Wrap500>>,
                              IF r.ret THEN NoExc
                              ELSE HTTPException(500, "Failed to update preferences"), <<>>)
       /\ UNCHANGED <<app, google, ui, oauth, clock, last, memVars, clientVars, tool>>

\* --- app/routes/calendar.py ---

\* CalendarAgent.__init__(self) takes no argument: a keyword makes the call
\* raise TypeError
CalendarAgent_init(kwargs) ==
    IF kwargs # <<>>
    THEN Exc("TypeError", "__init__() got an unexpected keyword argument")
    ELSE NoExc

\* The first lines of each handler's try, current_user being the dict or the
\* None its dependency injected:
\*     calendar_agent = CalendarAgent(user_credentials=current_user.get("credentials"))
\*     ... = await calendar_agent.<method>(...)
AgentCall(current_user, method) ==
    IF current_user = "None"
    THEN Exc("AttributeError", "'NoneType' object has no attribute 'get'")
    ELSE IF CalendarAgent_init(<<"user_credentials">>).type # "none"
    THEN CalendarAgent_init(<<"user_credentials">>)
    ELSE IF method \notin {"process_message", "process_message_sync"}
    THEN Exc("AttributeError", "'CalendarAgent' object has no attribute")
    ELSE NoExc

calendar_get_events(current_user) ==
    PlainRoute("calendar.get_events", <<>>, <<Wrap500As("Error getting events: ")>>,
               AgentCall(current_user, "get_events"))

\* found: whether the agent returned an event
calendar_get_event(current_user, event_id, found) ==
    PlainRoute("calendar.get_event", <<event_id>>,
               <<Reraise, Wrap500As("Error getting event: ")>>,
               IF AgentCall(current_user, "get_event").type # "none"
               THEN AgentCall(current_user, "get_event")
               ELSE IF ~found THEN HTTPException(404, "Event not found") ELSE NoExc)

\* start_time and end_time go to the agent as the strings they are
calendar_create_event(current_user, start_time, end_time) ==
    PlainRoute("calendar.create_event", <<start_time, end_time>>,
               <<Wrap500As("Error creating event: ")>>,
               AgentCall(current_user, "create_event"))

calendar_update_event(current_user, event_id, start_time, end_time) ==
    PlainRoute("calendar.update_event", <<start_time, end_time>>,
               <<Wrap500As("Error updating event: ")>>,
               AgentCall(current_user, "update_event"))

calendar_delete_event(current_user, event_id) ==
    PlainRoute("calendar.delete_event", <<event_id>>,
               <<Wrap500As("Error deleting event: ")>>,
               AgentCall(current_user, "delete_event"))

calendar_search_events(current_user) ==
    PlainRoute("calendar.search_events", <<>>,
               <<Wrap500As("Error searching events: ")>>,
               AgentCall(current_user, "search_events"))

\* --- utils/auth.py and personal_assistant/app/routes/auth.py ---

\* get_credentials(scopes). token is the state of token.json (absent, corrupt,
\* or holding credentials that are valid, expired with a refresh token, or
\* stale: invalid with nothing to refresh them), refresh_ok whether
\* creds.refresh works, secrets whether credentials.json exists, flow_ok whether
\* the local-server OAuth flow ends with credentials. Gives the credentials
\* returned ("None" for None), the exception raised, and token.json afterwards.
get_credentials(token, refresh_ok, secrets, flow_ok) ==
    LET loaded == IF token \in {"valid", "expired", "stale"} THEN token ELSE "None"
        creds == IF loaded = "expired" THEN (IF refresh_ok THEN "valid" ELSE "None")
                 ELSE loaded
        tried == IF loaded = "expired"
                 THEN <<[Request("creds.refresh", <<>>) EXCEPT
                            !.out = IF refresh_ok THEN "ok" ELSE "RefreshError"]>>
                 ELSE <<>>
    IN IF creds # "None"
       THEN [creds |-> creds, exc |-> NoExc, token |-> token, effects |-> tried]
       ELSE IF ~secrets
       THEN [creds |-> "None", token |-> token, effects |-> tried,
             exc |-> Exc("FileNotFoundError", "credentials.json not found")]
       ELSE IF flow_ok
       THEN [creds |-> "valid", exc |-> NoExc, token |-> "valid",
             effects |-> tried \o <<Request("flow.run_local_server", <<>>),
                                    Request("token.write", <<>>)>>]
       ELSE [creds |-> "None", exc |-> NoExc, token |-> token,
             effects |-> tried \o <<[Request("flow.run_local_server", <<>>) EXCEPT
                                        !.out = "Exception"]>>]

\* A caller runs get_credentials(scopes) on token.json as it is.
GetCredentials(scopes, refresh_ok, secrets, flow_ok) ==
    LET g == get_credentials(oauth.token, refresh_ok, secrets, flow_ok)
    IN /\ oauth' = [token |-> g.token, before |-> oauth.token, called |-> TRUE, scopes |-> scopes,
                   creds |-> g.creds, raised |-> g.exc.type, effects |-> g.effects]
       /\ UNCHANGED <<prefVars, memVars, clientVars, callVars, app, google, ui>>

\* token.json is removed, damaged or replaced, or its credentials expire.
TokenChanges(t) ==
    /\ oauth.token # t
    /\ oauth' = [oauth EXCEPT !.token = t]
    /\ UNCHANGED <<prefVars, memVars, clientVars, callVars, app, google, ui>>

\* the services the login route knows
LoginServices == {"gmail", "calendar", "all"}

\* GET /auth/login: the HTTPException(400) for an unknown service is raised
\* inside the try and caught by its except Exception. flow_ok: whether
\* get_oauth_flow and authorization_url return; the answer is then a redirect
\* (307). api holds the creation of the OAuth flow, when it is attempted.
login(service, flow_ok) ==
    /\ response' = [Respond("auth.login", <<service>>, <<Wrap500>>,
                      IF service \notin LoginServices
                      THEN HTTPException(400, "Invalid service: " \o service)
                      ELSE IF ~flow_ok THEN Exc("NameError", "get_oauth_flow") ELSE NoExc,
                      IF service \notin LoginServices THEN <<>>
                      ELSE <<[Request("get_oauth_flow", <<service>>) EXCEPT
                                 !.out = IF flow_ok THEN "ok" ELSE "NameError"]>>)
                        EXCEPT !.status = IF @ = 200 THEN 307 ELSE @]
    /\ UNCHANGED <<app, google, ui, oauth, prefVars, memVars, clientVars, tool>>

\* GET /auth/callback: get_oauth_flow, fetch_token and save_credentials
callback(code, flow_ok) ==
    /\ response' = [Respond("auth.callback", <<code>>, <<Wrap500>>,
                      IF ~flow_ok THEN Exc("NameError", "get_oauth_flow") ELSE NoExc, <<>>)
                        EXCEPT !.status = IF @ = 200 THEN 307 ELSE @]
    /\ UNCHANGED <<app, google, ui, oauth, prefVars, memVars, clientVars, tool>>

\* A handler that calls get_credentials on the token.json it finds (token):
\* what the call did (refresh, authorization flow, token write) is kept in api.
AuthRoute(handler, token, clauses, e, effects) ==
    /\ response' = Respond(handler, <<token>>, clauses, e, effects)
    /\ UNCHANGED <<app, google, ui, oauth, prefVars, memVars, clientVars, tool>>

\* The body of both auth_status handlers: get_credentials for Gmail, then for
\* Calendar; with_user_info: get_user_info when the Gmail credentials are
\* valid, which raises unless info_ok.
StatusBody(token, refresh_ok, secrets, flow_ok, with_user_info, info_ok) ==
    LET g == get_credentials(token, refresh_ok, secrets, flow_ok)
        c == get_credentials(g.token, refresh_ok, secrets, flow_ok)
    IN IF g.exc.type # "none"
       THEN [exc |-> g.exc, token |-> g.token, effects |-> g.effects]
       ELSE IF c.exc.type # "none"
       THEN [exc |-> c.exc, token |-> c.token, effects |-> g.effects \o c.effects]
       ELSE [exc |-> IF with_user_info /\ g.creds = "valid" /\ ~info_ok
                     THEN Exc("HttpError", "userinfo") ELSE NoExc,
             token |-> c.token, effects |-> g.effects \o c.effects]

\* GET /auth/status
auth_status(token, refresh_ok, secrets, flow_ok, info_ok) ==
    LET b == StatusBody(token, refresh_ok, secrets, flow_ok, TRUE, info_ok)
    IN AuthRoute("auth.auth_status", token, <<Wrap500>>, b.exc, b.effects)

\* GET /api/auth/status of main.py
main_auth_status(token, refresh_ok, secrets, flow_ok) ==
    LET b == StatusBody(token, refresh_ok, secrets, flow_ok, FALSE, TRUE)
    IN AuthRoute("main.auth_status", token, <<Wrap500>>, b.exc, b.effects)

\* POST /auth/logout: get_credentials([]) and, with valid credentials,
\* revoke_token, which raises unless revoke_ok
logout(token, refresh_ok, secrets, flow_ok, revoke_ok) ==
    LET g == get_credentials(token, refresh_ok, secrets, flow_ok)
    IN AuthRoute("auth.logout", token, <<Wrap500>>,
                 IF g.exc.type # "none" THEN g.exc
                 ELSE IF g.creds = "valid" /\ ~revoke_ok
                 THEN Exc("NameError", "revoke_token")
                 ELSE NoExc, g.effects)

----------------------------------------------------------------------------
(* src/config.py and app.py: the configuration and main().                 *)
(*                                                                         *)
(* os.environ is a function from the names that are set to their strings.  *)

RequiredKeys == <<"OPENAI_API_KEY", "GOOGLE_CLIENT_ID", "GOOGLE_CLIENT_SECRET",
                  "GOOGLE_REDIRECT_URI">>

\* int(s) of a str: the number, or ValueError
PyInt(s) ==
    CASE s = "8000" -> [raised |-> "none", value |-> 8000]
      [] s = "9000" -> [raised |-> "none", value |-> 9000]
      [] OTHER -> [raised |-> "ValueError", value |-> 0]

\* a _get_env that takes the empty string for a variable that is not set
AppConfig_get_env_lenient(environ, key, has_default, default) ==
    IF key \in DOMAIN environ THEN [raised |-> "none", key |-> "", value |-> environ[key]]
    ELSE [raised |-> "none", key |-> "", value |-> IF has_default THEN default ELSE ""]

\* _get_env(key, default): os.environ.get(key, default), and MissingConfigError
\* when that is None, which is when key is not set and no default was given
AppConfig_get_env(environ, key, has_default, default) ==
    IF key \in DOMAIN environ THEN [raised |-> "none", key |-> "", value |-> environ[key]]
    ELSE IF has_default THEN [raised |-> "none", key |-> "", value |-> default]
    ELSE [raised |-> "MissingConfigError", key |-> key, value |-> ""]

NoConfig == [openai_api_key |-> "", google_client_id |-> "", google_client_secret |-> "",
             google_redirect_uri |-> "", app_host |-> "", app_port |-> 0]

\* AppConfig(): the six assignments in their order; the first that raises ends
\* the construction
AppConfig_init(environ) ==
    LET r == [i \in 1..4 |-> AppConfig_get_env(environ, RequiredKeys[i], FALSE, "")]
        host == AppConfig_get_env(environ, "APP_HOST", TRUE, "localhost")
        port == PyInt(AppConfig_get_env(environ, "APP_PORT", TRUE, "8000").value)
        bad == {i \in 1..4 : r[i].raised # "none"}
    IN IF bad # {}
       THEN LET i == CHOOSE i \in bad : \A j \in bad : i <= j
            IN [raised |-> r[i].raised, key |-> r[i].key, config |-> NoConfig]
       ELSE IF port.raised # "none"
       THEN [raised |-> port.raised, key |-> "", config |-> NoConfig]
       ELSE [raised |-> "none", key |-> "",
             config |-> [openai_api_key |-> r[1].value, google_client_id |-> r[2].value,
                         google_client_secret |-> r[3].value,
                         google_redirect_uri |-> r[4].value,
                         app_host |-> host.value, app_port |-> port.value]]

AppState(pc, environ, c, created, launched) ==
    [pc |-> pc, environ |-> environ, raised |-> c.raised, key |-> c.key,
     config |-> c.config, created |-> created, launched |-> launched]

NotStarted ==
    AppState("off", EmptyDict, [raised |-> "none", key |-> "", config |-> NoConfig],
             FALSE, FALSE)

\* The process starts with environment environ and main() constructs AppConfig;
\* an exception leaves main() and ends the process.
MainConfig(environ) ==
    /\ app.pc \in {"off", "exited", "serving"}
    /\ LET c == AppConfig_init(environ)
       IN app' = AppState(IF c.raised = "none" THEN "configured" ELSE "exited",
                          environ, c, FALSE, FALSE)
    /\ UNCHANGED <<prefVars, memVars, clientVars, callVars, google, ui, oauth>>

\* demo = create_interface(config)
MainCreate ==
    /\ app.pc = "configured"
    /\ app' = [app EXCEPT !.pc = "created", !.created = TRUE]
    /\ UNCHANGED <<prefVars, memVars, clientVars, callVars, google, ui, oauth>>

\* demo.launch(server_name=config.app_host, server_port=config.app_port, ...)
MainLaunch ==
    /\ app.pc = "created"
    /\ app' = [app EXCEPT !.pc = "serving", !.launched = TRUE]
    /\ UNCHANGED <<prefVars, memVars, clientVars, callVars, google, ui, oauth>>

----------------------------------------------------------------------------
(* src/services/google_api.py, src/services/agent_service.py and           *)
(* src/ui/interface.py: the Google service of the Gradio interface.        *)
(*                                                                         *)
(* Credentials are "valid", "expired_refreshable" (expired, with a refresh *)
(* token), "expired" (expired, without one) or "invalid" (neither valid    *)
(* nor expired); "None" is no credentials. The token file holds one of     *)
(* them, or is "absent", or is "corrupt" (pickle.load raises).             *)

AuthUrl == "https://accounts.google.com/o/oauth2/auth"

\* _build_services(): nothing without credentials; the two build() calls in
\* order, an exception of either ending the method with what was assigned
GoogleAPIService_build_services(g, b) ==
    IF g.credentials = "None" THEN g
    ELSE CASE b = "ok" -> [g EXCEPT !.gmail_service = "service", !.calendar_service = "service"]
           [] b = "gmail_raises" -> g
           [] b = "calendar_raises" -> [g EXCEPT !.gmail_service = "service"]

GoogleAPIService_is_authenticated(g) ==
    g.credentials # "None" /\ g.gmail_service # "None" /\ g.calendar_service # "None"

\* with open(token_path, "wb") as token: pickle.dump(creds, token)
SaveToken(g, creds, w) ==
    CASE w = "ok" -> [g EXCEPT !.token = creds]
      [] w = "open_error" -> g
      [] w = "write_error" -> [g EXCEPT !.token = "corrupt"]

\* authenticate(): r is what creds.refresh does, w what saving the token does,
\* b what building the services does. google is the instance and the token
\* file afterwards.
GoogleAPIService_authenticate(g, r, w, b) ==
    LET creds == IF g.token = "absent" THEN "None" ELSE g.token
        flow == [raised |-> "none", status |-> FALSE, url |-> AuthUrl]
    IN IF g.token = "corrupt"
       THEN [raised |-> "UnpicklingError", status |-> FALSE, url |-> "None", google |-> g]
       ELSE IF creds = "valid"
       THEN [raised |-> "none", status |-> TRUE, url |-> "None",
             google |-> GoogleAPIService_build_services([g EXCEPT !.credentials = creds], b)]
       ELSE IF creds = "expired_refreshable"
       THEN IF r # "ok"
            THEN flow @@ [google |-> g]
            ELSE LET built == GoogleAPIService_build_services(
                                  [g EXCEPT !.credentials = "valid"], b)
                 IN IF w = "ok"
                    THEN [raised |-> "none", status |-> TRUE, url |-> "None",
                          google |-> SaveToken(built, "valid", w)]
                    ELSE flow @@ [google |-> SaveToken(built, "valid", w)]
       ELSE flow @@ [google |-> g]

\* handle_auth_callback(code): f is what flow.fetch_token does
GoogleAPIService_handle_auth_callback(g, f, w, b) ==
    IF f # "ok" THEN [ret |-> FALSE, google |-> g]
    ELSE LET got == [g EXCEPT !.credentials = "valid"]
         IN IF w # "ok" THEN [ret |-> FALSE, google |-> SaveToken(got, "valid", w)]
            ELSE [ret |-> TRUE,
                  google |-> GoogleAPIService_build_services(SaveToken(got, "valid", w), b)]

\* create_calendar_event(...): False without a request when not authenticated;
\* otherwise the times are converted and one events().insert is made, and the
\* result is True unless something raised. x is what the try block does: "ok",
\* an exception of the conversion ("AttributeError"), or one of the request.
GoogleAPIService_create_calendar_event(g, start, end, x) ==
    IF ~GoogleAPIService_is_authenticated(g) \/ x = "AttributeError"
    THEN [ret |-> FALSE, api |-> <<>>]
    ELSE [ret |-> x = "ok",
          api |-> <<[Request("events.insert", <<start, end>>) EXCEPT !.out = x]>>]

UICall(op, args, raised, status, ret, ran, authed, called, api) ==
    [op |-> op, args |-> args, raised |-> raised, status |-> status, ret |-> ret,
     ran |-> ran, authed |-> authed, called |-> called, api |-> api]

\* AgentService.process_message(message): run is what self.agent.run does, its
\* output or the exception it raised. ran: agent.run was invoked; authed: what
\* is_authenticated() was then; status: what authenticate() answered.
AgentService_process_message(g, r, w, b, run) ==
    LET a == IF GoogleAPIService_is_authenticated(g)
             THEN [raised |-> "none", status |-> TRUE, url |-> "None", google |-> g]
             ELSE GoogleAPIService_authenticate(g, r, w, b)
    IN IF a.raised # "none"
       THEN [google |-> a.google,
             call |-> UICall("process_message", <<>>, a.raised, FALSE, "", FALSE, FALSE, FALSE, <<>>)]
       ELSE IF ~a.status
       THEN [google |-> a.google,
             call |-> UICall("process_message", <<>>, "none", FALSE, "Please authenticate with Google first by visiting this URL: " \o a.url,
                             FALSE, FALSE, FALSE, <<>>)]
       ELSE [google |-> a.google,
             call |-> UICall("process_message", <<>>, "none", TRUE,
                             IF run \in RunnerErrors
                             THEN "Sorry, I encountered an error: " \o run ELSE run,
                             TRUE, GoogleAPIService_is_authenticated(a.google), FALSE, <<>>)]

\* check_auth_status() of the interface calls google_service.authenticate().
CheckAuthStatus(r, w, b) ==
    LET a == GoogleAPIService_authenticate(google, r, w, b)
    IN /\ google' = a.google
       /\ ui' = UICall("authenticate", <<>>, a.raised, a.status, a.url, FALSE,
                       GoogleAPIService_is_authenticated(a.google), FALSE, <<>>)
       /\ UNCHANGED <<prefVars, memVars, clientVars, callVars, app, oauth>>

\* submit_auth_code(code) of the interface
SubmitAuthCode(f, w, b) ==
    LET c == GoogleAPIService_handle_auth_callback(google, f, w, b)
    IN /\ google' = c.google
       /\ ui' = UICall("handle_auth_callback", <<>>, "none", c.ret, "", FALSE,
                       GoogleAPIService_is_authenticated(c.google), FALSE, <<>>)
       /\ UNCHANGED <<prefVars, memVars, clientVars, callVars, app, oauth>>

\* bot_response(history) of the interface calls agent_service.process_message.
BotResponse(r, w, b, run) ==
    LET p == AgentService_process_message(google, r, w, b, run)
    IN /\ google' = p.google
       /\ ui' = p.call
       /\ UNCHANGED <<prefVars, memVars, clientVars, callVars, app, oauth>>

\* a create_event that does not compare the two times
interface_create_event_unordered(g, title, start, end, x) ==
    IF title = "" THEN [ret |-> "Please enter an event title", called |-> FALSE, api |-> <<>>]
    ELSE IF start \in {-1, 0} \/ end \in {-1, 0}
    THEN [ret |-> "Please select start and end times", called |-> FALSE, api |-> <<>>]
    ELSE LET c == GoogleAPIService_create_calendar_event(g, start, end, x)
         IN [ret |-> IF c.ret THEN "Event created successfully" ELSE "Failed to create event",
             called |-> TRUE, api |-> c.api]

\* create_event(title, start, end, description, location) of the interface.
\* -1 stands for an empty time input (None), the other values are instants,
\* and `not t` holds of 0 as it does of None. After a creation it calls
\* refresh_events(): get_upcoming_events(20), one events().list when
\* authenticated.
interface_create_event(g, title, start, end, x) ==
    IF title = "" THEN [ret |-> "Please enter an event title", called |-> FALSE, api |-> <<>>]
    ELSE IF start \in {-1, 0} \/ end \in {-1, 0}
    THEN [ret |-> "Please select start and end times", called |-> FALSE, api |-> <<>>]
    ELSE IF end <= start
    THEN [ret |-> "End time must be after start time", called |-> FALSE, api |-> <<>>]
    ELSE LET c == GoogleAPIService_create_calendar_event(g, start, end, x)
         IN IF c.ret
            THEN [ret |-> "Event created successfully", called |-> TRUE,
                  api |-> c.api \o (IF ~GoogleAPIService_is_authenticated(g) THEN <<>>
                                     ELSE <<Request("events.list", <<>>)>>)]
            ELSE [ret |-> "Failed to create event", called |-> TRUE, api |-> c.api]

\* The user presses "Create Event".
CreateEvent(title, start, end, x) ==
    LET c == interface_create_event(google, title, start, end, x)
    IN /\ ui' = UICall("create_event", <<title, start, end>>, "none", FALSE, c.ret, FALSE,
                       GoogleAPIService_is_authenticated(google), c.called, c.api)
       /\ UNCHANGED <<prefVars, memVars, clientVars, callVars, app, google, oauth>>

\* The token on disk and the credentials in memory reach their expiry.
TokenExpires(kind) ==
    /\ google.token = "valid" \/ google.credentials = "valid"
    /\ google' = [google EXCEPT
                     !.token = IF @ = "valid" THEN kind ELSE @,
                     !.credentials = IF @ = "valid" THEN kind ELSE @]
    /\ UNCHANGED <<prefVars, memVars, clientVars, callVars, app, ui, oauth>>

----------------------------------------------------------------------------
(* The specifications. *)

NoCall == [op |-> "", user_id |-> "", updates |-> EmptyDict, before |-> AbsentFile,
           io |-> "", prefs |-> EmptyDict, ok |-> TRUE, wrote |-> FALSE]

NoReturn == [agent |-> "", slot |-> 0, input |-> "", outcome |-> "", raised |-> "none", value |-> ""]

Init ==
    /\ files = [u \in UserIds |-> AbsentFile]
    /\ clock = 0
    /\ last = NoCall
    /\ conversation_memory = <<>>
    /\ calls = [s \in 1..NumSlots |-> IdleCall]
    /\ returned = NoReturn
    /\ gmail_service = "None"
    /\ calendar_service = "None"
    /\ client = [class |-> "", method |-> "", ret |-> PyNone, raised |-> "none", api |-> <<>>, auths |-> 0, auth |-> "cached", failed |-> FALSE]
    /\ tool = [agent |-> "", name |-> "", args |-> <<>>, data |-> <<>>, ret |-> "", raised |-> "none", clients |-> <<>>, api |-> <<>>]
    /\ app = NotStarted
    /\ google = [token |-> "absent", credentials |-> "None", gmail_service |-> "None",
     calendar_service |-> "None"]
    /\ oauth = [token |-> "absent", before |-> "absent", called |-> FALSE, scopes |-> "",
                creds |-> "None", raised |-> "none", effects |-> <<>>]
    /\ ui = UICall("", <<>>, "none", FALSE, "", FALSE, FALSE, FALSE, <<>>)
    /\ response = [handler |-> "", args |-> <<>>, api |-> <<>>, exc |-> "", exctype |-> "none", status |-> 0, detail |-> ""]

\* One AssistantAgent used by one caller at a time: a call begins when none is
\* in flight.
NextMemory ==
    \/ /\ Len(conversation_memory) < MaxMemory
       /\ \A s \in 1..NumSlots : calls[s].pc = "idle"
       /\ \E io \in SaveOutcomes : AssistantBegin(1, "hi", "default", io)
    \/ AssistantReturn(1, "out1")
    \/ \E e \in RunnerErrors : AssistantRaise(1, e)

SpecMemory == Init /\ [][NextMemory]_vars

\* The three agents of the REST layer, one instance each; chat requests are
\* coroutines, so Assistant calls overlap at the runner await.
NextAgents ==
    \/ /\ Len(conversation_memory) < MaxAgentMemory
       /\ \E s \in 1..NumSlots, m \in Messages, u \in UserIds :
             AssistantBegin(s, m, u, "ok")
    \/ \E s \in 1..NumSlots, o \in Outputs : AssistantReturn(s, o)
    \/ \E s \in 1..NumSlots, e \in RunnerErrors : AssistantRaise(s, e)
    \/ \E m \in Messages, o \in Outputs \cup RunnerErrors : EmailAgent_process_message(m, o)
    \/ \E m \in Messages, o \in Outputs \cup RunnerErrors : CalendarAgent_process_message(m, o)

SpecAgents == Init /\ [][NextAgents]_vars

\* The preference store, one call at a time.
NextPrefs ==
    \/ \E u \in StoreUsers, io \in SaveOutcomes : LoadPreferences(u, io)
    \/ \E u \in StoreUsers, up \in UpdateSets, io1, io2 \in SaveOutcomes :
          UpdatePreferences(u, up, io1, io2)
    \/ Tick

SpecPrefs == Init /\ [][NextPrefs]_vars

\* Two callers update the preferences of one user, their steps interleaved.
NextRace ==
    \/ \E p \in Updaters, u \in StoreUsers, up \in UpdateSets : UpdateExists(p, u, up)
    \/ \E p \in Updaters, io \in SaveOutcomes : UpdateLoad(p, io)
    \/ \E p \in Updaters, io \in SaveOutcomes : UpdateSave(p, io)
    \/ Tick

SpecRace == Init /\ [][NextRace]_vars

\* One GmailService and one CalendarService, their methods called one at a time
\* with every outcome of authentication and of each request.
NextClients ==
    \E a \in {"service", "none", "raise"}, e \in {"HttpError", "ConnectionError", "TypeError"}, n \in 0..MaxItems, id \in {"id1", "id9"} :
        \/ \E k \in 0..1 : GmailCall("send_email",
              GmailService_send_email(gmail_service, a, Outcomes(1, k, e)))
        \/ \E k \in 0..(n + 1) : GmailCall("get_unread_emails",
              GmailService_get_unread_emails(gmail_service, a, n, Outcomes(n + 1, k, e)))
        \/ \E k \in 0..1 : GmailCall("mark_as_read",
              GmailService_mark_as_read(gmail_service, a, id, Outcomes(1, k, e)))
        \/ \E k \in 0..(n + 1) : GmailCall("search_emails",
              GmailService_search_emails(gmail_service, a, n, Outcomes(n + 1, k, e)))
        \/ \E k \in 0..1 : GmailCall("get_email_thread",
              GmailService_get_email_thread(gmail_service, a, id, SubSeq(ItemIds, 1, n),
                                            Outcomes(1, k, e)))
        \/ \E k \in 0..1 : CalendarCall("get_upcoming_events",
              CalendarService_get_upcoming_events(calendar_service, a, n, Outcomes(1, k, e)))
        \/ \E k \in 0..1 : CalendarCall("create_event",
              CalendarService_create_event(calendar_service, a, "2025-01-01T09:00:00",
                                           "2025-01-01T10:00:00", Outcomes(1, k, e)))
        \/ \E k \in 0..3 : CalendarCall("update_event",
              CalendarService_update_event(calendar_service, a, id, Outcomes(3, k, e)))
        \/ \E k \in 0..1 : CalendarCall("delete_event",
              CalendarService_delete_event(calendar_service, a, id, Outcomes(1, k, e)))
        \/ \E k \in 0..1 : CalendarCall("get_event_details",
              CalendarService_get_event_details(calendar_service, a, id, Outcomes(1, k, e)))
        \/ \E k \in 0..1 : CalendarCall("search_events",
              CalendarService_search_events(calendar_service, a, n, Outcomes(1, k, e)))

SpecClients == Init /\ [][NextClients]_vars

\* The application is started under every environment made of these settings.
NextConfig ==
    \/ \E set \in SUBSET {"OPENAI_API_KEY", "GOOGLE_CLIENT_ID", "GOOGLE_CLIENT_SECRET",
                          "GOOGLE_REDIRECT_URI", "APP_HOST", "APP_PORT"},
          port \in {"8000", "9000", "http"}, text \in {"", "x"} :
          MainConfig([k \in set |-> CASE k = "APP_PORT" -> port
                                      [] k = "APP_HOST" -> "0.0.0.0"
                                      [] OTHER -> text])
    \/ MainCreate
    \/ MainLaunch

SpecConfig == Init /\ [][NextConfig]_vars

\* Calls of get_credentials on every token.json, with every outcome of the
\* refresh and of the authorization flow.
NextAuth ==
    \/ \E scopes \in LoginServices, refresh_ok \in BOOLEAN, secrets \in BOOLEAN,
          flow_ok \in BOOLEAN : GetCredentials(scopes, refresh_ok, secrets, flow_ok)
    \/ \E t \in {"absent", "corrupt", "valid", "expired", "stale"} : TokenChanges(t)

SpecAuth == Init /\ [][NextAuth]_vars

\* The handlers of the interface, with every outcome of the refresh, of the
\* token save, of the service build and of the agent run.
NextGoogle ==
    \/ \E r \in {"ok", "RefreshError"}, w \in SaveOutcomes,
          b \in {"ok", "gmail_raises", "calendar_raises"} :
          \/ CheckAuthStatus(r, w, b)
          \/ SubmitAuthCode(r, w, b)
          \/ \E run \in {"out1", "RuntimeError"} : BotResponse(r, w, b, run)
    \/ \E kind \in {"expired_refreshable", "expired"} : TokenExpires(kind)
    \/ \E title \in {"", "Lunch"}, start \in {-1, 0, 9, 10}, end \in {-1, 0, 9, 10},
          x \in {"ok", "AttributeError", "HttpError"} : CreateEvent(title, start, end, x)

SpecGoogle == Init /\ [][NextGoogle]_vars

\* The create_calendar_event tools and the create handlers, given every pair
\* of start and end strings.
NextCreate ==
    \E a \in {"service", "none"}, k \in 0..1, s1 \in DateStrings, s2 \in DateStrings :
        LET outs == Outcomes(1, k, "HttpError")
        IN \/ Assistant_create_calendar_event(s1, s2, a, outs)
           \/ CalendarAgent_create_calendar_event(s1, s2, a, outs)
           \/ api_create_calendar_event(s1, s2, a, outs)
           \/ main_create_calendar_event(s1, s2, a, outs)

SpecCreate == Init /\ [][NextCreate]_vars

\* The runner invokes the tools of the three agents, one at a time, with every
\* outcome of the client each calls: a save works or cannot open the file,
\* authentication gives a service or none, a request returns or raises.
NextTools ==
    \/ \E loop_running, has_key \in BOOLEAN, x \in {"ok", "ClientError"}, n \in 0..MaxItems :
          Assistant_search_web(loop_running, has_key, x, n)
    \/ \E io \in {"ok", "open_error"} : Assistant_get_user_preferences("default", io)
    \/ \E io1, io2 \in {"ok", "open_error"} :
          Assistant_update_preference("default", "theme", "dark", io1, io2)
    \/ \E a \in {"service", "none"}, n \in 0..MaxItems : \E k \in 0..(n + 1) :
          LET outs == Outcomes(n + 1, k, "HttpError")
          IN \/ Assistant_get_unread_emails(a, n, outs)
             \/ Assistant_search_emails(a, n, outs)
             \/ EmailAgent_get_unread_emails(a, n, outs)
             \/ EmailAgent_search_emails(a, n, outs)
    \/ \E a \in {"service", "none"}, n \in 0..MaxItems, k \in 0..1 :
          LET outs == Outcomes(1, k, "HttpError")
          IN \/ Assistant_get_upcoming_events(a, n, outs)
             \/ Assistant_search_calendar_events(a, n, outs)
             \/ CalendarAgent_get_upcoming_events(a, n, outs)
             \/ CalendarAgent_search_calendar_events(a, n, outs)
             \/ EmailAgent_get_email_thread("id1", a, SubSeq(ItemIds, 1, n), outs)
             \/ \E id \in {"id1", "id9"}, a2 \in {"service", "none"}, k2 \in 0..1 :
                   EmailAgent_read_email(id, a, SubSeq(ItemIds, 1, n), outs,
                                         a2, Outcomes(1, k2, "ConnectionError"))
    \/ \E a \in {"service", "none"}, k \in 0..1 :
          LET outs == Outcomes(1, k, "ConnectionError")
          IN \/ Assistant_send_email(a, outs)
             \/ EmailAgent_send_email(a, outs)
             \/ CalendarAgent_delete_calendar_event("id1", a, outs)
             \/ \E has_start \in BOOLEAN :
                   CalendarAgent_get_event_details("id1", has_start, a, outs)
             \/ \E s1, s2 \in DateStrings :
                   \/ Assistant_create_calendar_event(s1, s2, a, outs)
                   \/ CalendarAgent_create_calendar_event(s1, s2, a, outs)
    \/ \E a \in {"service", "none"}, k \in 0..3,
          up \in {<<<<"summary", "Lunch">>>>, <<<<"start", "2025-01-01">>>>,
                  <<<<"start", "tomorrow">>>>,
                  <<<<"summary", "Lunch">>, <<"end", "next week">>>>,
                  <<<<"start", "2025-01-01T09:00:00">>, <<"end", "next week">>>>,
                  <<<<"start", "2025-01-01T09:00:00">>,
                    <<"end", "2025-01-01T10:00:00">>>>} :
          CalendarAgent_update_calendar_event("id1", up, a, Outcomes(3, k, "TypeError"))

SpecTools == Init /\ [][NextTools]_vars

\* chat requests are taken while the memory is shorter than this
MaxRouteMemory == 1

\* Requests arrive one at a time at the handlers of the four route modules, with
\* every outcome of what each handler calls; c is <<token, refresh_ok, secrets,
\* flow_ok>>, one value for each path through get_credentials.
NextRoutes ==
    \/ \E out \in {"out1", "RuntimeError"} :
          \/ Len(conversation_memory) < MaxRouteMemory /\ api_chat("hi", "default", "ok", out)
          \/ Len(conversation_memory) < MaxRouteMemory /\ main_chat("hi", "default", "ok", out)
          \/ api_email_chat("hi", out)
          \/ api_calendar_chat("hi", out)
          \/ main_email_chat("hi", out)
          \/ main_calendar_chat("hi", out)
    \/ \E a \in {"service", "none"}, k \in 0..1 :
          LET outs == Outcomes(1, k, "ConnectionError")
          IN \/ api_send_email(a, outs)
             \/ main_send_email(a, outs)
             \/ \E s1 \in DateStrings, s2 \in {"2025-01-01T10:00:00", "next week"} :
                   \/ api_create_calendar_event(s1, s2, a, outs)
                   \/ main_create_calendar_event(s1, s2, a, outs)
             \/ \E n \in 0..MaxItems :
                   \/ api_get_upcoming_events(a, n, outs)
                   \/ api_search_calendar_events(a, n, outs)
    \/ \E a \in {"service", "none"}, n \in 0..MaxItems : \E k \in 0..(n + 1) :
          \/ api_get_unread_emails(a, n, Outcomes(n + 1, k, "HttpError"))
          \/ api_search_emails(a, n, Outcomes(n + 1, k, "HttpError"))
    \/ \E io \in {"ok", "open_error"} :
          \/ api_get_preferences("default", io)
          \/ main_get_preferences("default", io)
    \/ \E io1, io2, io3 \in {"ok", "open_error"} :
          \/ api_update_preferences("default", "theme" :> "dark", io1, io2, io3)
          \/ main_update_preferences("default", "theme" :> "dark", io1, io2, io3)
    \/ \E cu \in {"dict", "None"} :
          \/ calendar_get_events(cu)
          \/ \E found \in BOOLEAN : calendar_get_event(cu, "id1", found)
          \/ \E s1 \in DateStrings, s2 \in {"2025-01-01T10:00:00", "next week"} :
                \/ calendar_create_event(cu, s1, s2)
                \/ calendar_update_event(cu, "id1", s1, s2)
          \/ calendar_delete_event(cu, "id1")
          \/ calendar_search_events(cu)
    \/ \E service \in LoginServices \cup {"drive"}, flow_ok \in BOOLEAN :
          \/ login(service, flow_ok)
          \/ callback("code", flow_ok)
    \/ \E ok \in BOOLEAN,
          c \in {<<"valid", TRUE, TRUE, TRUE>>, <<"stale", TRUE, TRUE, TRUE>>,
                 <<"expired", TRUE, TRUE, TRUE>>, <<"expired", FALSE, TRUE, TRUE>>,
                 <<"expired", FALSE, FALSE, TRUE>>, <<"absent", TRUE, TRUE, TRUE>>,
                 <<"absent", TRUE, TRUE, FALSE>>, <<"absent", TRUE, FALSE, TRUE>>,
                 <<"corrupt", TRUE, TRUE, TRUE>>} :
          \/ auth_status(c[1], c[2], c[3], c[4], ok)
          \/ main_auth_status(c[1], c[2], c[3], c[4])
          \/ logout(c[1], c[2], c[3], c[4], ok)

SpecRoutes == Init /\ [][NextRoutes]_vars

----------------------------------------------------------------------------
(* The conversation memory. *)

\* C1: each time a process_message call of the Assistant has returned,
\* conversation_memory holds at most 20 entries.
C1_MemoryAtMostLimit ==
    (returned.agent = "assistant" /\ \A s \in 1..NumSlots : calls[s].pc = "idle")
        => Len(conversation_memory) <= MemoryLimit

\* A call has returned after the runner raised with the memory already full.
C1_Witness ==
    /\ returned.agent = "assistant" /\ returned.outcome \in RunnerErrors
    /\ \A s \in 1..NumSlots : calls[s].pc = "idle"
    /\ Len(conversation_memory) >= MemoryLimit

\* C2: once the system entry has been appended, conversation_memory[0] is a
\* system entry and no later step, a trimming one included, replaces it.
C2_FirstEntryKept ==
    /\ [](conversation_memory # <<>> => conversation_memory[1].role = "system")
    /\ [][conversation_memory # <<>> =>
            /\ conversation_memory' # <<>>
            /\ conversation_memory'[1] = conversation_memory[1]]_vars

\* The memory has just been trimmed: only then does an assistant entry
\* follow the system entry when calls do not overlap.
C2_Witness ==
    /\ Len(conversation_memory) = MemoryLimit
    /\ conversation_memory[1].role = "system"
    /\ conversation_memory[2].role = "assistant"

----------------------------------------------------------------------------
(* The agents' process_message. *)

ApologyOf(agent) ==
    CASE agent = "assistant" -> AssistantApology
      [] agent = "email" -> EmailApology
      [] agent = "calendar" -> CalendarApology

\* C3: a process_message call of the three agents propagates no exception;
\* when the runner raised it returns the agent's fixed apology, whatever the
\* exception, and otherwise the runner's final output.
C3_NeverPropagates ==
    returned.agent # "" =>
        /\ returned.raised = "none"
        /\ returned.outcome \in RunnerErrors => returned.value = ApologyOf(returned.agent)
        /\ returned.outcome \notin RunnerErrors => returned.value = returned.outcome

C3_Witness ==
    /\ returned.agent = "calendar"
    /\ returned.outcome = "ValueError"
    /\ returned.value = CalendarApology

----------------------------------------------------------------------------
(* The preference store. *)

\* What load_user_preferences(user_id) returns in the current state, for each
\* later time and each outcome of the write it may make.
LoadsAfter(user_id) ==
    {load_user_preferences(files, user_id, now, io) : now \in clock..MaxClock, io \in SaveOutcomes}

UpdateDone == last.op = "update" /\ last.before.kind # "corrupt"

Merged(prefs, updates, before, keys) ==
    /\ \A k \in keys : k \in DOMAIN prefs /\ prefs[k] = updates[k]
    /\ \A k \in DOMAIN before : k \in DOMAIN prefs
    /\ \A k \in DOMAIN before \ (DOMAIN updates \cup {"updated_at"}) : prefs[k] = before[k]

\* C4 as stated: after update_user_preferences(user_id, updates), a load
\* returns a record with every key of updates as given, every key stored
\* before still present, and the keys outside updates (updated_at apart) as
\* they were.
C4_MergeAsStated ==
    UpdateDone => \A l \in LoadsAfter(last.user_id) :
        Merged(l.ret, last.updates, last.before.data, DOMAIN last.updates)

\* C4 as amended: the same when the update returned True, for the keys of
\* updates other than updated_at.
C4_MergeWhenSaved ==
    (UpdateDone /\ last.ok) => \A l \in LoadsAfter(last.user_id) :
        Merged(l.ret, last.updates, last.before.data, DOMAIN last.updates \ {"updated_at"})

\* An update of a stored record that changed a default key and returned True.
C4_Witness ==
    /\ UpdateDone /\ last.ok
    /\ last.before.kind = "json"
    /\ "lang" \in DOMAIN last.before.data
    /\ "theme" \in DOMAIN last.updates
    /\ \E l \in LoadsAfter(last.user_id) : l.ret["theme"] = last.updates["theme"]

FirstLoad == last.op = "load" /\ last.before.kind = "absent"

DefaultRecord(prefs, user_id) == DOMAIN prefs = DefaultKeys /\ prefs["user_id"] = user_id

FileCreated(call) ==
    /\ files[call.user_id] = JsonFile(call.prefs)
    /\ \A l \in LoadsAfter(call.user_id) :
          l.ret = call.prefs /\ ~l.wrote /\ l.files = files

\* C5 as stated: a load for a user id with no file creates the file and returns
\* a record with exactly the default keys and that user id; a second load
\* returns the same record and does not rewrite the file.
C5_DefaultsAsStated ==
    FirstLoad => DefaultRecord(last.prefs, last.user_id) /\ FileCreated(last)

\* C5 as amended: the record returned is the default one in every case; the
\* file is created, and read back by the second load, when its write succeeds.
C5_DefaultsWhenWritten ==
    FirstLoad =>
        /\ DefaultRecord(last.prefs, last.user_id)
        /\ last.io = "ok" => FileCreated(last)

\* A first load whose write succeeded, with time left to pass before the second.
C5_Witness ==
    /\ FirstLoad /\ last.io = "ok"
    /\ files[last.user_id].kind = "json"
    /\ clock < MaxClock

\* the sentinel the documentation gives each client method
SentinelOf(method) ==
    CASE method \in {"get_unread_emails", "search_emails", "get_email_thread",
                     "get_upcoming_events", "search_events"} -> PyList(<<>>)
      [] method \in {"create_event", "update_event", "get_event_details"} -> PyNone
      [] method \in {"send_email", "delete_event", "mark_as_read"} -> PyBool(FALSE)

\* C6: a GmailService or CalendarService method in which a request to the API
\* raised (HttpError or anything else) returns its empty sentinel ([] for the
\* list/search/thread methods, None for create/update/get-details, False for
\* send/delete/mark-read) and no exception reaches its caller.
C6_SentinelOnApiError ==
    client.failed => client.raised = "none" /\ client.ret = SentinelOf(client.method)

\* mark_as_read, which has a single handler, met an error that is no HttpError
\* after an earlier call had authenticated.
C6_Witness ==
    /\ client.method = "mark_as_read"
    /\ client.failed
    /\ client.auths = 0
    /\ client.api = <<[Request("messages.modify", <<"id1">>) EXCEPT !.out = "ConnectionError"]>>
    /\ client.ret = PyBool(FALSE)

\* C9: no tool function raises: whatever its client returns (data, an empty
\* result or the failure sentinel) and whatever string it is given as a date,
\* every tool of the three agents returns a string.
C9_NoToolRaises == tool.raised = "none"

\* search_web, invoked while the event loop runs, lets the RuntimeError of
\* asyncio.run reach its caller.
C9_SearchWebRaises ==
    /\ tool.name = "search_web"
    /\ tool.raised = "RuntimeError"

\* the date strings a create/update tool was given are all ISO
DatesValid(args) == \A i \in 1..Len(args) : IsIso(args[i])

\* C10 as stated: each invocation of a tool calls exactly one client method.
C10_ExactlyOneClientCall == tool.name # "" => Len(tool.clients) = 1

\* C10, amended: each invocation of a tool calls exactly one client method,
\* except that read_email calls two (get_email_thread, then mark_as_read) when
\* the thread holds the message, and create_calendar_event and
\* update_calendar_event call none when a date string they are given is not ISO.
C10_ClientCallsPerTool ==
    tool.name # "" =>
        Len(tool.clients) =
            CASE tool.name = "read_email" ->
                   IF \E i \in 1..Len(tool.data) : tool.data[i] = tool.args[1] THEN 2 ELSE 1
              [] tool.name = "create_calendar_event" ->
                   IF DatesValid(tool.args) THEN 1 ELSE 0
              [] tool.name = "update_calendar_event" ->
                   IF DatesValid(Tail(tool.args)) THEN 1 ELSE 0
              [] OTHER -> 1

\* read_email found its message and went on to mark it read: two client calls,
\* three requests.
C10_Witness ==
    /\ tool.name = "read_email"
    /\ tool.args = <<"id1">>
    /\ tool.clients = <<"GmailService.get_email_thread", "GmailService.mark_as_read">>
    /\ tool.api = <<Request("threads.get", <<"id1">>), Request("messages.modify", <<"id1">>)>>

\* the handlers of POST /api/calendar/create
CreateHandlers == {"api.create_calendar_event", "main.create_calendar_event",
                   "calendar.create_event"}

\* C7: in every implementation of POST /api/calendar/create, a request whose
\* start_time or end_time is no ISO-8601 string is answered with status 400 and
\* a detail that starts with "Invalid date format", and no event is inserted.
C7_InvalidDate400 ==
    (response.handler \in CreateHandlers /\ ~DatesValid(response.args)) =>
        /\ response.status = 400
        /\ response.detail = "Invalid date format: " \o response.exc
        /\ \A i \in 1..Len(response.api) : response.api[i].verb # "events.insert"

\* create_event of app/routes/calendar.py answers a request with a non-ISO
\* start_time with status 500.
C7_Witness ==
    /\ response.handler = "calendar.create_event"
    /\ response.args = <<"tomorrow", "2025-01-01T10:00:00">>
    /\ response.status = 500
    /\ response.exctype = "TypeError"

\* a response that reports an error
IsError(resp) == resp.status >= 400

\* the response is the 400 of a date string that did not parse
DateParse400(resp) ==
    /\ resp.status = 400
    /\ resp.exctype = "ValueError"
    /\ resp.handler \in CreateHandlers
    /\ ~DatesValid(resp.args)

\* C8 as stated: an error response has status 500 and the exception's message
\* as its detail, or is the 400 of a date-parse failure.
C8_ErrorsAsStated ==
    IsError(response) =>
        \/ response.status = 500 /\ response.detail = response.exc
        \/ DateParse400(response)

\* what the handlers of app/routes/calendar.py put before the message
ErrorPrefix(handler) ==
    CASE handler = "calendar.get_events" -> "Error getting events: "
      [] handler = "calendar.get_event" -> "Error getting event: "
      [] handler = "calendar.create_event" -> "Error creating event: "
      [] handler = "calendar.update_event" -> "Error updating event: "
      [] handler = "calendar.delete_event" -> "Error deleting event: "
      [] handler = "calendar.search_events" -> "Error searching events: "
      [] OTHER -> ""

\* C8, amended: an error response has status 500 and as its detail the
\* exception's message, which the handlers of app/routes/calendar.py prefix
\* with "Error <doing>: ", or is the 400 of a date-parse failure, whose detail
\* is "Invalid date format: " and the message; no other error status occurs.
C8_ErrorsWithPrefix ==
    IsError(response) =>
        \/ /\ response.status = 500
           /\ response.exctype # "none"
           /\ response.detail = ErrorPrefix(response.handler) \o response.exc
        \/ /\ DateParse400(response)
           /\ response.detail = "Invalid date format: " \o response.exc

\* login with an unknown service: the HTTPException(400) it raises is answered
\* as a 500 whose detail is that exception's message.
C8_Witness ==
    /\ response.handler = "auth.login"
    /\ response.args = <<"drive">>
    /\ response.status = 500
    /\ response.exctype = "HTTPException"
    /\ response.detail = "400: Invalid service: drive"

\* the requests of a log that raised
FailedIn(log) == {i \in 1..Len(log) : log[i].out # "ok"}

\* what a tool returns when its client gave the sentinel of a failure
FailureTexts ==
    {"You have no unread emails.", "Failed to send email. Please try again.",
     "No emails found matching", "You have no upcoming events.",
     "Failed to create event. Please try again.", "No events found matching",
     "Could not find email", "Could not find thread", "Could not find event",
     "Failed to update event", "Failed to delete event"}

\* no request of the log follows one that raised, so none is issued again
NoRetry(log) == \A i \in FailedIn(log) : i = Len(log)

HandleOf(class, gmail, calendar) == IF class = "GmailService" THEN gmail ELSE calendar

\* C12: on one GmailService or CalendarService instance, authenticate() is
\* invoked only by a call that finds the handle unset; a call that
\* authenticated and went on to the API leaves the handle set; and a set handle
\* is kept as it is by every later call, none of which authenticates.
C12_LazyAuthCached ==
    [][LET before == HandleOf(client'.class, gmail_service, calendar_service)
           after == HandleOf(client'.class, gmail_service', calendar_service')
       IN /\ client'.auths > 0 => before = "None"
          /\ (client'.auths > 0 /\ client'.api # <<>>) => after # "None"
          /\ before # "None" => (after = before /\ client'.auths = 0)
          /\ gmail_service # "None" => gmail_service' = gmail_service
          /\ calendar_service # "None" => calendar_service' = calendar_service]_vars

\* delete_event ran on the handle an earlier call had cached: it sent its
\* request without authenticating.
C12_Witness ==
    /\ client.class = "CalendarService"
    /\ client.method = "delete_event"
    /\ client.auths = 0
    /\ Len(client.api) = 1
    /\ calendar_service = "service"

\* C13: a call that finds no handle and whose authenticate() fails (the
\* builder returned no service, or raised) returns the method's sentinel
\* without raising and without any API request, and leaves the handle unset;
\* and every call that finds the handle unset attempts authentication.
C13_AuthFailureSentinel ==
    [][/\ client'.auth \in {"none", "raise"} =>
            /\ client'.ret = SentinelOf(client'.method)
            /\ client'.raised = "none"
            /\ client'.api = <<>>
            /\ HandleOf(client'.class, gmail_service', calendar_service') = "None"
       /\ HandleOf(client'.class, gmail_service, calendar_service) = "None" =>
            client'.auths = 1 /\ client'.auth # "cached"]_vars

\* delete_event found no handle and build_calendar_service() raised: False came
\* back, nothing was sent, and the handle is still unset.
C13_Witness ==
    /\ client.class = "CalendarService"
    /\ client.method = "delete_event"
    /\ client.auth = "raise"
    /\ client.ret = PyBool(FALSE)
    /\ client.api = <<>>
    /\ calendar_service = "None"

\* the stored record of user_id has every key of updates with its value
Holds(user_id, updates) ==
    /\ files[user_id].kind = "json"
    /\ \A k \in DOMAIN updates :
          k \in DOMAIN files[user_id].data /\ files[user_id].data[k] = updates[k]

\* C14: update_user_preferences is an unlocked load-merge-write. When two
\* updates of one user that set different keys have both returned True and p
\* wrote last, the stored record is p's: it has p's keys, and it has q's keys
\* exactly when p loaded the record q had written; otherwise q's update is lost.
C14_LastWriterWins ==
    \A p \in Updaters, q \in Updaters :
        (/\ p # q
         /\ calls[p].pc = "done" /\ calls[q].pc = "done"
         /\ calls[p].user_id = calls[q].user_id
         /\ calls[p].ret /\ calls[q].ret
         /\ last.op = "write" /\ last.by = p
         /\ DOMAIN calls[p].updates \cap DOMAIN calls[q].updates = {}
         /\ "updated_at" \notin DOMAIN calls[p].updates \cup DOMAIN calls[q].updates)
        => /\ Holds(calls[p].user_id, calls[p].updates)
           /\ Holds(calls[q].user_id, calls[q].updates) <=> q \in calls[p].seen

\* Both updates returned True, one set theme and the other lang, and the
\* stored record has the theme of the first and no lang at all.
C14_Witness ==
    /\ calls[1].pc = "done" /\ calls[2].pc = "done"
    /\ calls[1].ret /\ calls[2].ret
    /\ calls[1].user_id = "default" /\ calls[2].user_id = "default"
    /\ calls[1].updates = "theme" :> "dark"
    /\ calls[2].updates = "lang" :> "fr"
    /\ files["default"].kind = "json"
    /\ files["default"].data["theme"] = "dark"
    /\ "lang" \notin DOMAIN files["default"].data

\* C15: the conversation memory belongs to the agent instance the handlers
\* share, not to a user. A call entering process_message appends its message
\* to the one list whatever its user id; the system entry holds the
\* preferences of the caller that found the list empty, stays first, and no
\* other call adds one.
C15_MemoryPerInstance ==
    [][/\ \A s \in 1..NumSlots :
            (calls[s].pc = "idle" /\ calls'[s].pc = "awaiting") =>
                LET f == calls'[s]
                    user == Entry("user", f.message, EmptyDict)
                IN IF conversation_memory = <<>>
                   THEN /\ Len(conversation_memory') = 2
                        /\ conversation_memory'[1].role = "system"
                        /\ conversation_memory'[1].prefs["user_id"] = f.user_id
                        /\ conversation_memory'[2] = user
                   ELSE conversation_memory' = Append(conversation_memory, user)
       /\ conversation_memory # <<>> => conversation_memory'[1] = conversation_memory[1]
       /\ \A i \in 2..Len(conversation_memory') : conversation_memory'[i].role # "system"]_vars

\* Two calls overlap, the first for "default" and the second for "alice": the
\* list starts with the preferences of "default" and holds the two messages one
\* after the other, no reply between them.
C15_Witness ==
    /\ calls[1] = [pc |-> "awaiting", message |-> "hi", user_id |-> "default"]
    /\ calls[2] = [pc |-> "awaiting", message |-> "bye", user_id |-> "alice"]
    /\ Len(conversation_memory) = 3
    /\ conversation_memory[1].prefs["user_id"] = "default"
    /\ conversation_memory[2] = Entry("user", "hi", EmptyDict)
    /\ conversation_memory[3] = Entry("user", "bye", EmptyDict)

\* what a create call given two ISO strings sends, if it sends anything: one
\* events.insert carrying both times as given, whatever their order
Forwarded(args, log) ==
    \/ log = <<>>
    \/ /\ Len(log) = 1
       /\ log[1].verb = "events.insert"
       /\ log[1].arg = <<isoformat(fromisoformat(args[1])), isoformat(fromisoformat(args[2]))>>

\* C16: the create_calendar_event tools and the POST create handlers do not
\* compare the two times. Given two ISO strings, end after start or not, the
\* tool calls CalendarService.create_event and the handler never answers 400;
\* what is sent is one events.insert with both times, and when the API accepts
\* it the tool reports the event created and the handler answers 200.
C16_TimesNotCompared ==
    /\ (tool.name = "create_calendar_event" /\ IsIso(tool.args[1]) /\ IsIso(tool.args[2])) =>
          /\ tool.clients = <<"CalendarService.create_event">>
          /\ Forwarded(tool.args, tool.api)
          /\ (tool.api # <<>> /\ tool.api[1].out = "ok") => tool.ret = "Event created successfully."
    /\ (response.handler \in {"api.create_calendar_event", "main.create_calendar_event"}
        /\ IsIso(response.args[1]) /\ IsIso(response.args[2])) =>
          /\ response.status # 400
          /\ Forwarded(response.args, response.api)
          /\ (response.api # <<>> /\ response.api[1].out = "ok") => response.status = 200

\* The handler was given an end one hour before the start and answered 200
\* after the insert, and the tool was given an end equal to the start and
\* reported the event created.
C16_Witness ==
    /\ response.handler = "api.create_calendar_event"
    /\ response.args = <<"2025-01-01T10:00:00", "2025-01-01T09:00:00">>
    /\ response.api = <<Request("events.insert", <<"2025-01-01T10:00:00", "2025-01-01T09:00:00">>)>>
    /\ response.status = 200
    /\ tool.agent = "CalendarAgent"
    /\ tool.name = "create_calendar_event"
    /\ tool.args = <<"2025-01-01T09:00:00", "2025-01-01T09:00:00">>
    /\ tool.api = <<Request("events.insert", <<"2025-01-01T09:00:00", "2025-01-01T09:00:00">>)>>
    /\ tool.ret = "Event created successfully."

Unset(environ) == {i \in 1..4 : RequiredKeys[i] \notin DOMAIN environ}

\* C17: a process started with any of the four required variables unset ends
\* in AppConfig() with MissingConfigError for the first of them, and main()
\* neither creates nor launches the interface; with the four set, an unset
\* APP_HOST gives localhost and an unset APP_PORT gives 8000, and nothing is
\* raised for their absence.
C17_MissingConfigFatal ==
    app.pc # "off" =>
        IF Unset(app.environ) # {}
        THEN /\ app.pc = "exited"
             /\ app.raised = "MissingConfigError"
             /\ \E i \in Unset(app.environ) :
                   app.key = RequiredKeys[i] /\ \A j \in Unset(app.environ) : i <= j
             /\ ~app.created /\ ~app.launched
        ELSE /\ app.raised # "MissingConfigError"
             /\ ("APP_PORT" \notin DOMAIN app.environ) =>
                   app.raised = "none" /\ app.config.app_port = 8000
             /\ ("APP_HOST" \notin DOMAIN app.environ /\ app.raised = "none") =>
                   app.config.app_host = "localhost"

\* Only GOOGLE_CLIENT_SECRET and GOOGLE_REDIRECT_URI were unset: main() ended
\* with MissingConfigError for GOOGLE_CLIENT_SECRET.
C17_Witness ==
    /\ Unset(app.environ) = {3, 4}
    /\ app.pc = "exited"
    /\ app.raised = "MissingConfigError"
    /\ app.key = "GOOGLE_CLIENT_SECRET"
    /\ ~app.created

IsNetworkCall(r) == r.verb # "merge"

\* the requests of the last client call that went to the network
NetworkCalls == SelectSeq(client.api, IsNetworkCall)

Verbs(log) == [i \in 1..Len(log) |-> log[i].verb]

ListMethods == {"get_unread_emails", "search_emails"}

\* one messages.list, then one messages.get for each of the first n ids listed
ListThenGets(log, n) ==
    /\ Len(log) = n + 1
    /\ log[1].verb = "messages.list"
    /\ \A i \in 2..(n + 1) : log[i].verb = "messages.get" /\ log[i].arg = <<ItemIds[i - 1]>>

\* C18 as stated: a method that has a handle performs exactly one network call,
\* except get_unread_emails and search_emails, which perform one list call
\* followed by one get call per listed item.
C18_OneCallPerMethod ==
    (client.method # "" /\ client.auth \in {"service", "cached"}) =>
        IF client.method \in ListMethods
        THEN \E n \in 0..Len(ItemIds) : ListThenGets(NetworkCalls, n)
        ELSE Len(NetworkCalls) = 1

\* C18: a method that fails to authenticate performs no network call. One that
\* has a handle and whose requests all succeed performs exactly one, except
\* get_unread_emails and search_emails (one list, then one get per item
\* returned) and update_event (one events.get, then one events.update). When a
\* step fails it is the last one: between one call and that number were made.
C18_CallsPerMethod ==
    client.method # "" =>
        /\ client.auth \in {"none", "raise"} => NetworkCalls = <<>>
        /\ (client.auth \in {"service", "cached"} /\ ~client.failed) =>
              CASE client.method \in ListMethods ->
                      ListThenGets(NetworkCalls, Len(client.ret.items))
                [] client.method = "update_event" ->
                      Verbs(NetworkCalls) = <<"events.get", "events.update">>
                [] OTHER -> Len(NetworkCalls) = 1
        /\ client.failed =>
              /\ Len(NetworkCalls) >= 1
              /\ client.api[Len(client.api)].out # "ok"
              /\ CASE client.method \in ListMethods ->
                         \E n \in 0..Len(ItemIds) : ListThenGets(NetworkCalls, n)
                   [] client.method = "update_event" ->
                         Verbs(NetworkCalls) \in {<<"events.get">>,
                                                  <<"events.get", "events.update">>}
                   [] OTHER -> Len(NetworkCalls) = 1

\* update_event returned the updated event after two requests, the read of the
\* event and its update.
C18_Witness ==
    /\ client.method = "update_event"
    /\ ~client.failed
    /\ client.ret = PyDict("id1")
    /\ Verbs(NetworkCalls) = <<"events.get", "events.update">>

C20_TrimAsStated ==
    [][(calls[1].pc = "awaiting" /\ calls'[1].pc = "idle" /\ returned'.outcome \in Outputs) =>
          LET appended == Append(conversation_memory,
                                 Entry("assistant", returned'.outcome, EmptyDict))
              n == Len(appended)
          IN IF n > 20
             THEN /\ Len(conversation_memory') = 20
                  /\ conversation_memory'[1] = conversation_memory[1]
                  /\ \A i \in 2..20 : conversation_memory'[i] = appended[n - 20 + i]
             ELSE conversation_memory' = appended]_vars

\* A trimmed memory: the system entry, then the reply to a message that was
\* cut off, and further on two messages in a row, the first from a call whose
\* runner raised.
C20_Witness ==
    /\ Len(conversation_memory) = 20
    /\ returned.outcome \in Outputs
    /\ conversation_memory[1].role = "system"
    /\ conversation_memory[2].role = "assistant"
    /\ conversation_memory[3].role = "user"
    /\ conversation_memory[4].role = "user"
    /\ conversation_memory[20].role = "assistant"

\* C21: in sequential use of one AssistantAgent, after every process_message
\* call each assistant entry of conversation_memory comes right after a user
\* entry, the message it answers: trimming keeps no reply without its message.
C21_RepliesFollowMessages ==
    (\A s \in 1..NumSlots : calls[s].pc = "idle") =>
        \A i \in 1..Len(conversation_memory) :
            conversation_memory[i].role = "assistant" =>
                i > 1 /\ conversation_memory[i - 1].role = "user"

\* The tenth call in a row whose runner returned has ended: the 21 entries
\* were cut to the system entry and the last 19, and the first of these is
\* the reply to a message that is gone.
C21_Witness ==
    /\ \A s \in 1..NumSlots : calls[s].pc = "idle"
    /\ returned.outcome \in Outputs
    /\ Len(conversation_memory) = 20
    /\ conversation_memory[1].role = "system"
    /\ conversation_memory[2] = Entry("assistant", "out1", EmptyDict)
    /\ \A i \in 2..10 : /\ conversation_memory[2 * i - 1].role = "user"
                        /\ conversation_memory[2 * i].role = "assistant"

\* C22: AgentService.process_message runs the agent only when the Google
\* service is authenticated: whenever agent.run was invoked is_authenticated()
\* was true, and when authenticate() answered that authentication is required
\* the call returns the message with the authorization URL and the agent is
\* not run.
C22_AgentRunsAuthenticated ==
    ui.op = "process_message" =>
        /\ ui.ran => ui.authed
        /\ (ui.raised = "none" /\ ~ui.status) =>
              ~ui.ran /\ ui.ret = "Please authenticate with Google first by visiting this URL: " \o AuthUrl

\* The token file held valid credentials and building the Gmail service
\* raised: authenticate() answered True and the agent ran with no service.
C22_Witness ==
    /\ ui.op = "process_message"
    /\ ui.ran /\ ~ui.authed
    /\ ui.ret = "out1"
    /\ google.credentials = "valid"
    /\ google.gmail_service = "None"
    /\ google.calendar_service = "None"

\* C23: what GoogleAPIService.authenticate() returns agrees with the instance:
\* (True, None) exactly when is_authenticated() is true afterwards, and
\* (False, url) with a URL exactly when it is false afterwards, for every
\* token file and every outcome of refresh, token save and service build.
C23_StatusAgreesWithState ==
    (ui.op = "authenticate" /\ ui.raised = "none") =>
        /\ ui.status <=> ui.authed
        /\ ui.status => ui.ret = "None"
        /\ ~ui.status => ui.ret = AuthUrl

\* The expired token was refreshed and both services were built, then the
\* token file could not be opened for writing: authenticate() answered
\* (False, url) on an instance for which is_authenticated() is true.
C23_Witness ==
    /\ ui.op = "authenticate"
    /\ ~ui.status /\ ui.authed
    /\ ui.ret = AuthUrl
    /\ google.token = "expired_refreshable"
    /\ google.credentials = "valid"

\* C24: get_credentials returns None or valid credentials: stored credentials
\* that are not valid are refreshed, or replaced through a new authorization
\* flow, never returned as they are.
C24_NoneOrValid ==
    (oauth.called /\ oauth.raised = "none") => oauth.creds \in {"None", "valid"}

\* token.json held credentials that are neither valid nor refreshable, and
\* get_credentials returned them without a refresh and without a flow.
C24_Witness ==
    /\ oauth.called
    /\ oauth.before = "stale"
    /\ oauth.creds = "stale"
    /\ oauth.effects = <<>>
    /\ oauth.raised = "none"

\* C25: GET /auth/status and GET /api/auth/status are read-only: whatever the
\* state of token.json, answering them never starts an interactive OAuth flow
\* and never writes the token file.
C25_StatusReadOnly ==
    response.handler \in {"auth.auth_status", "main.auth_status"}
        => \A i \in 1..Len(response.api) :
              response.api[i].verb \notin {"flow.run_local_server", "token.write"}

\* A status query found no token.json: it answered 200 after the local-server
\* flow ran and the new token was written.
C25_Witness ==
    /\ response.handler \in {"auth.auth_status", "main.auth_status"}
    /\ response.args = <<"absent">>
    /\ response.status = 200
    /\ \E i \in 1..Len(response.api) : response.api[i].verb = "flow.run_local_server"
    /\ \E i \in 1..Len(response.api) : response.api[i].verb = "token.write"

\* C26: GET /auth/login with a service other than gmail, calendar and all is
\* rejected with HTTP 400 and the detail "Invalid service: <value>", and no
\* OAuth flow is created for it.
C26_InvalidServiceRejected ==
    (response.handler = "auth.login" /\ response.args[1] \notin LoginServices)
        => /\ response.status = 400
           /\ response.detail = "Invalid service: " \o response.args[1]
           /\ response.api = <<>>

\* login was asked for the service "drive": no flow was created, and the
\* answer is a 500.
C26_Witness ==
    /\ response.handler = "auth.login"
    /\ response.args[1] = "drive"
    /\ response.api = <<>>
    /\ response.status = 500
    /\ response.detail # "Invalid service: drive"

\* C27: the update_calendar_event tool validates before it acts: when a start
\* or end string of updates is not ISO-8601 it returns the invalid-date message
\* and CalendarService.update_event is not called, whatever the other entries
\* are; when every such string parses, update_event is called exactly once.
C27_ValidatesBeforeUpdate ==
    tool.name = "update_calendar_event" =>
        IF \E i \in 2..Len(tool.args) : ~IsIso(tool.args[i])
        THEN /\ tool.raised = "none"
             /\ \E key \in {"start", "end"} : tool.ret = "Invalid date format for " \o key
             /\ tool.clients = <<>>
             /\ tool.api = <<>>
        ELSE tool.clients = <<"CalendarService.update_event">>

\* updates held a start that parses and an end that does not: the tool named
\* the end and the calendar was left alone.
C27_Witness ==
    /\ tool.name = "update_calendar_event"
    /\ tool.args = <<"id1", "2025-01-01T09:00:00", "next week">>
    /\ tool.ret = "Invalid date format for end"
    /\ tool.clients = <<>>
    /\ tool.api = <<>>

\* with both times in ISO form the tool went to the calendar, once
C27_WitnessUpdated ==
    /\ tool.name = "update_calendar_event"
    /\ tool.args = <<"id1", "2025-01-01T09:00:00", "2025-01-01T10:00:00">>
    /\ tool.clients = <<"CalendarService.update_event">>
    /\ tool.ret = "Event updated successfully."

\* C28: the read_email tool marks a message as read only after it has fetched
\* the thread and found the message in it. When the thread lookup gives nothing
\* or the id is not among the thread's messages, mark_as_read is not called and
\* a not-found string is returned; when the message is found, mark_as_read is
\* called after get_email_thread and the content is returned whether or not
\* marking succeeded.
C28_MarksAfterFinding ==
    (tool.agent = "EmailAgent" /\ tool.name = "read_email") =>
        /\ tool.raised = "none"
        /\ IF next_by_id(tool.data, tool.args[1])
           THEN /\ tool.clients = <<"GmailService.get_email_thread",
                                    "GmailService.mark_as_read">>
                /\ tool.ret = "From:"
           ELSE /\ tool.clients = <<"GmailService.get_email_thread">>
                /\ \A i \in 1..Len(tool.api) : tool.api[i].verb # "messages.modify"
                /\ tool.ret \in {"Could not find email", "Could not find email in the thread"}

\* The message was found and messages.modify failed: the content came back all
\* the same.
C28_Witness ==
    /\ tool.agent = "EmailAgent" /\ tool.name = "read_email"
    /\ next_by_id(tool.data, tool.args[1])
    /\ tool.api[Len(tool.api)].verb = "messages.modify"
    /\ tool.api[Len(tool.api)].out # "ok"
    /\ tool.ret = "From:"

\* the thread came back without the message asked for: nothing was marked
C28_WitnessNotInThread ==
    /\ tool.agent = "EmailAgent" /\ tool.name = "read_email"
    /\ tool.data # <<>>
    /\ tool.ret = "Could not find email in the thread"
    /\ tool.clients = <<"GmailService.get_email_thread">>

\* C29: after any sequence of load_user_preferences and
\* update_user_preferences calls with arbitrary updates mappings, the record
\* stored in the preference file of user id u has its user_id field equal to u.
C29_RecordKeepsUserId ==
    \A u \in StoreUsers :
        files[u].kind = "json" =>
            "user_id" \in DOMAIN files[u].data /\ files[u].data["user_id"] = u

\* An update whose mapping holds the key user_id was saved: the file of the
\* user now names somebody else.
C29_Witness ==
    /\ last.op = "update" /\ last.ok
    /\ last.before.kind = "json"
    /\ last.before.data["user_id"] = last.user_id
    /\ "user_id" \in DOMAIN last.updates
    /\ files[last.user_id].kind = "json"
    /\ files[last.user_id].data["user_id"] = "mallory"

\* C30: the create_event handler of the interface calls
\* google_service.create_calendar_event only when a title is given, both times
\* are given and end is strictly after start. It checks in that order (title,
\* presence of the times, their order), and each rejected case returns its own
\* message without any calendar call.
C30_CreateAfterChecks ==
    ui.op = "create_event" =>
        LET title == ui.args[1]
            start == ui.args[2]
            end == ui.args[3]
            rejected == [ret |-> ui.ret, called |-> ui.called, api |-> ui.api]
        IN /\ ui.called => (title # "" /\ start # -1 /\ end # -1 /\ end > start)
           /\ IF title = ""
              THEN rejected = [ret |-> "Please enter an event title",
                               called |-> FALSE, api |-> <<>>]
              ELSE IF start \in {-1, 0} \/ end \in {-1, 0}
              THEN rejected = [ret |-> "Please select start and end times",
                               called |-> FALSE, api |-> <<>>]
              ELSE IF end <= start
              THEN rejected = [ret |-> "End time must be after start time",
                               called |-> FALSE, api |-> <<>>]
              ELSE /\ ui.called
                   /\ ui.ret \in {"Event created successfully", "Failed to create event"}

\* A titled event whose end is not after its start was turned down on the
\* order of its times, with the service authenticated and no request made.
C30_Witness ==
    /\ ui.op = "create_event"
    /\ ui.args = <<"Lunch", 10, 9>>
    /\ ui.authed
    /\ ui.ret = "End time must be after start time"
    /\ ~ui.called
    /\ ui.api = <<>>

\* a titled event from 9 to 10 went to the calendar
C30_WitnessCreated ==
    /\ ui.op = "create_event"
    /\ ui.args = <<"Lunch", 9, 10>>
    /\ ui.called
    /\ ui.ret = "Event created successfully"
    /\ ui.api = <<Request("events.insert", <<9, 10>>), Request("events.list", <<>>)>>

====
